---- MODULE Spec2Model ----
(***************************************************************************)
(* Workflow state store of the harness daemon (src/harness/state.py) and   *)
(* the task_claim / task_complete / get_state handlers of the RPC daemon   *)
(* (src/harness/daemon.py) with the trajectory log they append to.         *)
(*                                                                         *)
(* Every StateManager method runs under StateManager._lock, so each method *)
(* is atomic.  An action is a whole handler: the store operation, the      *)
(* trajectory append that follows it, and the response line.               *)
(***************************************************************************)
EXTENDS Integers, Sequences, FiniteSets, TLC

VARIABLES
    tasks,          \* StateManager._state.tasks: task id -> Task
    pending_deque,  \* WorkflowState._pending_deque
    pending_set,    \* WorkflowState._pending_set
    worker_index,   \* WorkflowState._worker_index: worker id -> task id
    disk,           \* contents of .claude/dev-workflow-state.json
    now,            \* the clock read by Task._clock() and datetime.now(UTC)
    trajectory,     \* contents of .claude/trajectory.jsonl, one event per line
    reply,          \* per worker: the last ok response that carried a task
    response,       \* what the last task_claim / task_complete handler answered
    tmp,            \* contents of .claude/dev-workflow-state.tmp
    lock,           \* the thread that holds StateManager._lock
    pc,             \* per handler thread: where it is between lock and response
    dc,             \* the locals of a running detect_cycle call
    ex,             \* GLOBAL_EXEC_LOCK, TrajectoryLogger._lock and the threads
                    \* that run exec, git, safe_commit, status and ping
    dm,             \* the daemon processes, the lock file and the socket file
    fn              \* the locals of a function call that is run step by step

vars == <<tasks, pending_deque, pending_set, worker_index, disk, now,
          trajectory, reply, response, tmp, lock, pc, dc, ex, dm, fn>>

\* the variables the atomic handlers below leave alone: the state of a write
\* in progress, of a detect_cycle call in progress, of the threads outside
\* the store and of the daemon processes
aux == <<tmp, lock, pc, dc, ex, dm, fn>>

----------------------------------------------------------------------------
(* Bounds of the model *)

MaxTime == 2
MaxLog == 3
MaxStoreLog == 1

(* Universe of ids.  TaskOrder is the insertion order of the tasks dict. *)
TaskOrder == <<"t1", "t2", "t3">>
TaskIds == {TaskOrder[i] : i \in 1..Len(TaskOrder)}
Workers == {"w1", "w2", "w3"}
TimeoutChoices == {1}

None == "None"
NoTime == -1

\* a WorkflowState that is None, a state file that does not exist
Absent == [state \in {None} |-> None]

PENDING == "pending"
RUNNING == "running"
COMPLETED == "completed"
FAILED == "failed"
TaskStatus == {PENDING, RUNNING, COMPLETED, FAILED}

----------------------------------------------------------------------------
(* Helpers over the ordered tasks dict *)

Pos(t) == CHOOSE i \in 1..Len(TaskOrder) : TaskOrder[i] = t

\* tasks.values() in dict order, as a sequence of ids
RECURSIVE KeysFrom(_, _)
KeysFrom(ts, i) ==
    IF i > Len(TaskOrder) THEN <<>>
    ELSE IF TaskOrder[i] \in DOMAIN ts
         THEN <<TaskOrder[i]>> \o KeysFrom(ts, i + 1)
         ELSE KeysFrom(ts, i + 1)

Keys(ts) == KeysFrom(ts, 1)

SeqToSet(s) == {s[i] : i \in 1..Len(s)}

RECURSIVE FilterSeq(_, _)
FilterSeq(s, S) ==
    IF s = <<>> THEN <<>>
    ELSE IF Head(s) \in S THEN <<Head(s)>> \o FilterSeq(Tail(s), S)
         ELSE FilterSeq(Tail(s), S)

----------------------------------------------------------------------------
(* detect_cycle: iterative depth-first search with three colours and an    *)
(* explicit stack.  A graph is [order, adj]: the keys of the dict in       *)
(* insertion order and the adjacency list of every key.  The locals of a   *)
(* call are a record d: the colour map, the position i of the for loop     *)
(* over the keys, the stack and, once the call has returned, the result.   *)

white == 0
gray == 1
black == 2

\* color.get(node, white)
ColorOf(color, node) == IF node \in DOMAIN color THEN color[node] ELSE white

\* color[node] = c, which adds the key when node is not one of the graph's keys
SetColor(color, node, c) ==
    [n \in DOMAIN color \cup {node} |-> IF n = node THEN c ELSE color[n]]

\* graph.get(node, [])
Neighbors(graph, node) ==
    IF node \in DOMAIN graph.adj THEN graph.adj[node] ELSE <<>>

Frame(node, neighbors_iter, is_entering) ==
    [node |-> node, neighbors_iter |-> neighbors_iter, is_entering |-> is_entering]

\* entry of detect_cycle: every key white, the for loop at the first key
DCEnter(graph) ==
    [at |-> "for", graph |-> graph,
     color |-> [n \in DOMAIN graph.adj |-> white],
     i |-> 1, stack |-> <<>>, result |-> None]

DCReturn(d, node) == [d EXCEPT !.at = "done", !.result = node, !.stack = <<>>]

\* one iteration of "for start_node in graph", up to the entry of the while
DCForStep(d) ==
    IF d.i > Len(d.graph.order) THEN DCReturn(d, None)
    ELSE LET start_node == d.graph.order[d.i] IN
         IF d.color[start_node] # white THEN [d EXCEPT !.i = d.i + 1]
         ELSE [d EXCEPT !.i = d.i + 1, !.at = "while",
                        !.stack = <<Frame(start_node,
                                          Neighbors(d.graph, start_node), TRUE)>>]

\* variant: a node whose neighbours are exhausted is left gray
DCWhileStepNoBlack(d) ==
    IF d.stack = <<>> THEN [d EXCEPT !.at = "for"]
    ELSE LET top == d.stack[Len(d.stack)]
             rest == SubSeq(d.stack, 1, Len(d.stack) - 1)
             node == top.node
         IN IF top.is_entering
            THEN IF ColorOf(d.color, node) = gray THEN DCReturn(d, node)
                 ELSE IF ColorOf(d.color, node) = black THEN [d EXCEPT !.stack = rest]
                 ELSE [d EXCEPT !.color = SetColor(d.color, node, gray),
                                !.stack = Append(rest, Frame(node, top.neighbors_iter, FALSE))]
            ELSE IF top.neighbors_iter # <<>>
                 THEN LET neighbor == Head(top.neighbors_iter)
                          again == Append(rest, Frame(node, Tail(top.neighbors_iter), FALSE))
                      IN IF ColorOf(d.color, neighbor) = gray THEN DCReturn(d, neighbor)
                         ELSE IF ColorOf(d.color, neighbor) = white
                         THEN [d EXCEPT !.stack =
                                   Append(again, Frame(neighbor,
                                                       Neighbors(d.graph, neighbor), TRUE))]
                         ELSE [d EXCEPT !.stack = again]
                 ELSE [d EXCEPT !.stack = rest]

\* one iteration of "while stack"; the while ends when the stack is empty
DCWhileStep(d) ==
    IF d.stack = <<>> THEN [d EXCEPT !.at = "for"]
    ELSE LET top == d.stack[Len(d.stack)]
             rest == SubSeq(d.stack, 1, Len(d.stack) - 1)
             node == top.node
         IN IF top.is_entering
            THEN IF ColorOf(d.color, node) = gray THEN DCReturn(d, node)
                 ELSE IF ColorOf(d.color, node) = black THEN [d EXCEPT !.stack = rest]
                 ELSE [d EXCEPT !.color = SetColor(d.color, node, gray),
                                !.stack = Append(rest, Frame(node, top.neighbors_iter, FALSE))]
            ELSE IF top.neighbors_iter # <<>>
                 THEN LET neighbor == Head(top.neighbors_iter)
                          again == Append(rest, Frame(node, Tail(top.neighbors_iter), FALSE))
                      IN IF ColorOf(d.color, neighbor) = gray THEN DCReturn(d, neighbor)
                         ELSE IF ColorOf(d.color, neighbor) = white
                         THEN [d EXCEPT !.stack =
                                   Append(again, Frame(neighbor,
                                                       Neighbors(d.graph, neighbor), TRUE))]
                         ELSE [d EXCEPT !.stack = again]
                 ELSE [d EXCEPT !.color = SetColor(d.color, node, black),
                                !.stack = rest]

RECURSIVE DCRun(_)
DCRun(d) ==
    IF d.at = "done" THEN d.result
    ELSE IF d.at = "for" THEN DCRun(DCForStep(d))
    ELSE DCRun(DCWhileStep(d))

\* the value detect_cycle(graph) returns: a node, or None
detect_cycle(graph) == DCRun(DCEnter(graph))

----------------------------------------------------------------------------
(* WorkflowState.validate_dag: "ok", a missing dependency, or a cycle      *)

\* list(t.dependencies) for every task; the dependencies are kept in the
\* order of the tasks
DepGraph(ts) ==
    [order |-> Keys(ts),
     adj |-> [t \in DOMAIN ts |-> FilterSeq(TaskOrder, ts[t].dependencies)]]

\* the first (task_id, dep) of the nested loops with dep not in task_ids
RECURSIVE FirstMissing(_, _)
FirstMissing(ts, keys) ==
    IF keys = <<>> THEN None
    ELSE LET missing == FilterSeq(TaskOrder, ts[Head(keys)].dependencies \ DOMAIN ts)
         IN IF missing # <<>> THEN Head(missing) ELSE FirstMissing(ts, Tail(keys))

\* the task_id of that first (task_id, dep)
RECURSIVE FirstMissingBy(_, _)
FirstMissingBy(ts, keys) ==
    IF keys = <<>> THEN None
    ELSE IF ts[Head(keys)].dependencies \ DOMAIN ts # {} THEN Head(keys)
    ELSE FirstMissingBy(ts, Tail(keys))

\* variant: only the dependency ids are checked, no cycle is looked for
dag_error_missing_only(ts) ==
    LET dep == FirstMissing(ts, Keys(ts)) IN
    IF dep # None
    THEN [kind |-> "missing", node |-> dep, by |-> FirstMissingBy(ts, Keys(ts))]
    ELSE [kind |-> "ok", node |-> None, by |-> None]

\* what validate_dag raises: nothing, "Missing dependency", "Dependency cycle"
dag_error(ts) ==
    LET dep == FirstMissing(ts, Keys(ts)) IN
    IF dep # None
    THEN [kind |-> "missing", node |-> dep, by |-> FirstMissingBy(ts, Keys(ts))]
    ELSE LET cycle_node == detect_cycle(DepGraph(ts)) IN
         IF cycle_node # None
         THEN [kind |-> "cycle", node |-> cycle_node, by |-> None]
         ELSE [kind |-> "ok", node |-> None, by |-> None]

validate_dag(ts) == dag_error(ts).kind = "ok"

----------------------------------------------------------------------------
(* Task.is_timed_out *)

\* variant: the lease counts as expired already when elapsed equals the timeout
is_timed_out_inclusive(task, clock) ==
    IF task.status # RUNNING \/ task.started_at = NoTime THEN FALSE
    ELSE clock - task.started_at >= task.timeout_seconds

is_timed_out(task, clock) ==
    IF task.status # RUNNING \/ task.started_at = NoTime THEN FALSE
    ELSE clock - task.started_at > task.timeout_seconds

----------------------------------------------------------------------------
(* WorkflowState.rebuild_indexes *)

\* stable sort of the pending ids by dependency count
RECURSIVE PendingByDeps(_, _, _)
PendingByDeps(ts, pending, n) ==
    IF n > Cardinality(TaskIds) THEN <<>>
    ELSE FilterSeq(pending, {t \in DOMAIN ts : Cardinality(ts[t].dependencies) = n})
         \o PendingByDeps(ts, pending, n + 1)

\* dict assignment in a loop: the last RUNNING task of a worker wins
LastRunningOf(ts, w) ==
    LET mine == {t \in DOMAIN ts : ts[t].status = RUNNING /\ ts[t].claimed_by = w}
    IN IF mine = {} THEN None
       ELSE CHOOSE t \in mine : \A u \in mine : Pos(u) <= Pos(t)

\* variant: the worker index is cleared and not repopulated
rebuild_without_worker_index(ts) ==
    LET pending == FilterSeq(Keys(ts), {t \in DOMAIN ts : ts[t].status = PENDING})
        sorted == PendingByDeps(ts, pending, 0)
    IN [pending_deque |-> sorted,
        pending_set |-> SeqToSet(sorted),
        worker_index |-> [w \in Workers |-> None]]

\* variant: the pending ids are queued in dict order, without the sort
rebuild_unsorted(ts) ==
    LET pending == FilterSeq(Keys(ts), {t \in DOMAIN ts : ts[t].status = PENDING})
    IN [pending_deque |-> pending,
        pending_set |-> SeqToSet(pending),
        worker_index |-> [w \in Workers |-> LastRunningOf(ts, w)]]

rebuild_indexes(ts) ==
    LET pending == FilterSeq(Keys(ts), {t \in DOMAIN ts : ts[t].status = PENDING})
        sorted == PendingByDeps(ts, pending, 0)
    IN [pending_deque |-> sorted,
        pending_set |-> SeqToSet(sorted),
        worker_index |-> [w \in Workers |-> LastRunningOf(ts, w)]]

----------------------------------------------------------------------------
(* WorkflowState._are_deps_satisfied: "yes", "no", or "raise" when a       *)
(* dependency id is missing (the first dependency that decides wins; the   *)
(* dependencies are visited in dict order)                                 *)

RECURSIVE DepsScan(_, _)
DepsScan(ts, deps) ==
    IF deps = <<>> THEN "yes"
    ELSE IF Head(deps) \notin DOMAIN ts THEN "raise"
    ELSE IF ts[Head(deps)].status # COMPLETED THEN "no"
    ELSE DepsScan(ts, Tail(deps))

DepsSeq(task) == FilterSeq(TaskOrder, task.dependencies)

\* variant: dependencies are looked up but their status is not checked
deps_status_ignored(ts, task) ==
    IF \E d \in task.dependencies : d \notin DOMAIN ts THEN "raise" ELSE "yes"

_are_deps_satisfied(ts, task) == DepsScan(ts, DepsSeq(task))

----------------------------------------------------------------------------
(* WorkflowState.get_claimable_task.  The result carries the task id (or   *)
(* None), whether _are_deps_satisfied raised, and the deque and set as the *)
(* scan left them: the scan mutates the cached state's indexes in place.   *)

Scan(task, raised, dq, ps) ==
    [task |-> task, raised |-> raised, pending_deque |-> dq, pending_set |-> ps]

\* fast path: the while loop over the pending deque
RECURSIVE FastPath(_, _, _, _, _)
FastPath(ts, dq, ps, rotations, max_rotations) ==
    IF dq = <<>> \/ rotations > max_rotations THEN Scan(None, FALSE, dq, ps)
    ELSE LET task_id == Head(dq) IN
         IF task_id \notin DOMAIN ts
         THEN FastPath(ts, Tail(dq), ps \ {task_id}, rotations, Len(Tail(dq)))
         ELSE IF ts[task_id].status # PENDING
         THEN FastPath(ts, Tail(dq), ps \ {task_id}, rotations, Len(Tail(dq)))
         ELSE LET sat == _are_deps_satisfied(ts, ts[task_id]) IN
              IF sat = "yes" THEN Scan(task_id, FALSE, dq, ps)
              ELSE IF sat = "raise" THEN Scan(None, TRUE, dq, ps)
              ELSE FastPath(ts, Append(Tail(dq), task_id), ps,
                            rotations + 1, max_rotations)

\* variant: the scan looks at the elapsed time only, not at the status
ReclaimableStale(task, clock) ==
    task.started_at # NoTime /\ clock - task.started_at > task.timeout_seconds

\* variant: a RUNNING task is never handed to another worker
ReclaimableNever(task, clock) == FALSE

\* the status and timeout test of the slow path
Reclaimable(task, clock) ==
    task.status = RUNNING /\ is_timed_out(task, clock)

\* slow path: the for loop over tasks.values() looking for a timed-out task
RECURSIVE SlowPath(_, _, _)
SlowPath(ts, keys, clock) ==
    IF keys = <<>> THEN [task |-> None, raised |-> FALSE]
    ELSE LET task == ts[Head(keys)] IN
         IF Reclaimable(task, clock)
         THEN LET sat == _are_deps_satisfied(ts, task) IN
              IF sat = "yes" THEN [task |-> Head(keys), raised |-> FALSE]
              ELSE IF sat = "raise" THEN [task |-> None, raised |-> TRUE]
              ELSE SlowPath(ts, Tail(keys), clock)
         ELSE SlowPath(ts, Tail(keys), clock)

get_claimable_task(ts, dq, ps, clock) ==
    LET fast == FastPath(ts, dq, ps, 0, Len(dq)) IN
    IF fast.task # None \/ fast.raised THEN fast
    ELSE LET slow == SlowPath(ts, Keys(ts), clock)
         IN Scan(slow.task, slow.raised, fast.pending_deque, fast.pending_set)

----------------------------------------------------------------------------
(* WorkflowState.get_task_for_worker: the worker's own RUNNING task, else  *)
(* a claimable one.  A stale index entry of the worker is deleted.         *)

\* variant: the worker's existing assignment is not looked up
get_task_ignoring_index(ts, dq, ps, wi, worker_id, clock) ==
    LET c == get_claimable_task(ts, dq, ps, clock)
    IN [task |-> c.task, raised |-> c.raised,
        pending_deque |-> c.pending_deque, pending_set |-> c.pending_set,
        worker_index |-> [wi EXCEPT ![worker_id] = None]]

get_task_for_worker(ts, dq, ps, wi, worker_id, clock) ==
    LET existing_tid == wi[worker_id] IN
    IF existing_tid # None
       /\ existing_tid \in DOMAIN ts
       /\ ts[existing_tid].status = RUNNING
       /\ ts[existing_tid].claimed_by = worker_id
    THEN [task |-> existing_tid, raised |-> FALSE,
          pending_deque |-> dq, pending_set |-> ps, worker_index |-> wi]
    ELSE LET c == get_claimable_task(ts, dq, ps, clock)
         IN [task |-> c.task, raised |-> c.raised,
             pending_deque |-> c.pending_deque, pending_set |-> c.pending_set,
             worker_index |-> [wi EXCEPT ![worker_id] = None]]

----------------------------------------------------------------------------
(* Responses and trajectory events *)

Idle == [kind |-> "idle", task |-> None, is_retry |-> FALSE,
         is_reclaim |-> FALSE, started_at |-> NoTime]

\* ClaimResult as _handle_task_claim returns it
ClaimResult(task, is_retry, is_reclaim, started_at) ==
    [kind |-> "claim", task |-> task, is_retry |-> is_retry,
     is_reclaim |-> is_reclaim, started_at |-> started_at]

\* {"status": "ok", "data": {"task_id": task_id}} of _handle_task_complete
CompleteOk(task) ==
    [kind |-> "complete", task |-> task, is_retry |-> FALSE,
     is_reclaim |-> FALSE, started_at |-> NoTime]

\* the event dict the handler passes to trajectory_logger.log
Event(w, r) ==
    IF r.kind = "claim"
    THEN [event_type |-> "task_claim", task_id |-> r.task, worker_id |-> w,
          is_retry |-> r.is_retry, is_reclaim |-> r.is_reclaim]
    ELSE [event_type |-> "task_complete", task_id |-> r.task, worker_id |-> w]

\* a handler thread outside any request
AtRest == [at |-> "idle"]

\* no detect_cycle call is in progress
NotRunning == [at |-> "idle"]

\* no function call is run step by step
NotCalled == [at |-> "idle"]

\* the connections whose handler threads run exec, git, safe_commit, status
\* and ping requests
Conns == {"c1", "c2"}

\* a connection whose request has not been answered yet
NoOutcome == [status |-> "none"]

\* nobody holds GLOBAL_EXEC_LOCK or TrajectoryLogger._lock and no such
\* request is being handled
Quiet ==
    [mutex |-> None, tlock |-> None, th |-> [c \in Conns |-> AtRest],
     out |-> [c \in Conns |-> NoOutcome]]

\* the daemon processes started against one socket path
Daemons == {"d1", "d2", "d3"}

\* a process that has not been started
Down == [at |-> "down", fd |-> None, listening |-> FALSE, st |-> FALSE,
         stop |-> FALSE, hs |-> "none", exc |-> FALSE, err |-> None,
         code |-> <<>>]

\* daemon d1 has been constructed and serves the socket: it created the lock
\* file, holds the flock on it and has bound the socket path
OneDaemon ==
    [path |-> "d1",
     flock |-> [i \in Daemons |-> IF i = "d1" THEN "d1" ELSE None],
     sock |-> "d1",
     pr |-> [d \in Daemons |->
               IF d = "d1" THEN [Down EXCEPT !.at = "serve", !.fd = "d1",
                                             !.listening = TRUE]
               ELSE Down]]

----------------------------------------------------------------------------
(* Initial state: a validated plan has been imported (StateManager.save of *)
(* PlanDefinition.to_workflow_state()): every task PENDING, no owner, no   *)
(* timestamps, cache and file equal, indexes rebuilt.                      *)

PlanTask(deps, timeout) ==
    [status |-> PENDING, dependencies |-> deps, started_at |-> NoTime,
     completed_at |-> NoTime, claimed_by |-> None, timeout_seconds |-> timeout]

Plans ==
    UNION {
        {p \in [{TaskOrder[i] : i \in 1..n} ->
                    {PlanTask(d, to) : d \in SUBSET {TaskOrder[i] : i \in 1..n},
                                       to \in TimeoutChoices}] :
            validate_dag(p)}
        : n \in 1..Len(TaskOrder)}

Init ==
    /\ tasks \in Plans
    /\ pending_deque = rebuild_indexes(tasks).pending_deque
    /\ pending_set = rebuild_indexes(tasks).pending_set
    /\ worker_index = rebuild_indexes(tasks).worker_index
    /\ disk = tasks
    /\ now = 0
    /\ trajectory = <<>>
    /\ reply = [w \in Workers |-> Idle]
    /\ response = "nothing"
    /\ tmp = Absent
    /\ lock = None
    /\ pc = [w \in Workers |-> AtRest]
    /\ dc = NotRunning
    /\ ex = Quiet
    /\ dm = OneDaemon
    /\ fn = NotCalled

----------------------------------------------------------------------------
(* StateManager.claim_task, under the lock *)

\* flags computed from the task as it was before the claim
was_mine(task, worker_id) == task.claimed_by = worker_id

\* variant: the retry flag is computed for a task that is not RUNNING
is_retry_pending_only(task, worker_id) ==
    was_mine(task, worker_id) /\ task.status = PENDING

is_retry(task, worker_id) == was_mine(task, worker_id) /\ task.status = RUNNING

\* variant: the negation of was_mine is missing
is_reclaim_not_negated(task, worker_id, clock) ==
    was_mine(task, worker_id) /\ task.status = RUNNING /\ is_timed_out(task, clock)

is_reclaim(task, worker_id, clock) ==
    ~was_mine(task, worker_id) /\ task.status = RUNNING /\ is_timed_out(task, clock)

\* variant: started_at is set on the first claim only, the lease is not renewed
ClaimedTaskNoRenewal(task, worker_id, clock) ==
    [task EXCEPT !.started_at = IF task.started_at = NoTime THEN clock
                                ELSE task.started_at,
                 !.status = RUNNING, !.claimed_by = worker_id]

\* variant: the status is left as it was
ClaimedTaskStatusKept(task, worker_id, clock) ==
    [task EXCEPT !.started_at = clock, !.claimed_by = worker_id]

\* struct_replace(task, started_at=now, status=RUNNING, claimed_by=worker_id)
ClaimedTask(task, worker_id, clock) ==
    [task EXCEPT !.started_at = clock, !.status = RUNNING, !.claimed_by = worker_id]

\* _handle_task_claim
TaskClaim(w) ==
    /\ LET g == get_task_for_worker(tasks, pending_deque, pending_set,
                                    worker_index, w, now)
       IN IF g.task = None
          THEN \* {"task": None}, or an error response when the lookup raised:
               \* only the in-place index repairs of the lookup remain and
               \* nothing is logged
               /\ pending_deque' = g.pending_deque
               /\ pending_set' = g.pending_set
               /\ worker_index' = g.worker_index
               /\ response' = IF g.raised THEN "error" ELSE "no_task"
               /\ UNCHANGED <<tasks, disk, trajectory, reply>>
          ELSE LET task == tasks[g.task]
                   updated_task == ClaimedTask(task, w, now)
                   new_tasks == [tasks EXCEPT ![g.task] = updated_task]
                   idx == rebuild_indexes(new_tasks)
                   result == ClaimResult(g.task, is_retry(task, w),
                                         is_reclaim(task, w, now), now)
               IN /\ Len(trajectory) < MaxLog
                  /\ tasks' = new_tasks
                  /\ pending_deque' = idx.pending_deque
                  /\ pending_set' = idx.pending_set
                  /\ worker_index' = idx.worker_index
                  /\ disk' = new_tasks
                  /\ trajectory' = Append(trajectory, Event(w, result))
                  /\ reply' = [reply EXCEPT ![w] = result]
                  /\ response' = "ok"
    /\ UNCHANGED <<now, aux>>

----------------------------------------------------------------------------
(* StateManager.complete_task, under the lock *)

\* variant: the ownership check is missing
OwnedByAnyone(task, worker_id) == TRUE

\* variant: the owner is accepted only while the task is RUNNING
OwnedByWhileRunning(task, worker_id) ==
    task.claimed_by = worker_id /\ task.status = RUNNING

\* variant: a task nobody has claimed passes the ownership check
OwnedByOrUnclaimed(task, worker_id) ==
    task.claimed_by = worker_id \/ task.claimed_by = None

\* the ownership check: task.claimed_by != worker_id raises
OwnedBy(task, worker_id) == task.claimed_by = worker_id

\* variant: the completion time is not recorded
CompletedTaskNoStamp(task, clock) == [task EXCEPT !.status = COMPLETED]

\* struct_replace(task, status=COMPLETED, completed_at=now)
CompletedTask(task, clock) ==
    [task EXCEPT !.status = COMPLETED, !.completed_at = clock]

\* _handle_task_complete
TaskComplete(w, t) ==
    /\ IF t \notin DOMAIN tasks
       THEN \* error response "Task not found", nothing is logged
            /\ response' = "not_found"
            /\ UNCHANGED <<tasks, pending_deque, pending_set, worker_index,
                           disk, trajectory, reply>>
       ELSE IF ~OwnedBy(tasks[t], w)
       THEN \* error response "Task t not owned by w", nothing is logged
            /\ response' = "not_owned"
            /\ UNCHANGED <<tasks, pending_deque, pending_set, worker_index,
                           disk, trajectory, reply>>
       ELSE LET new_tasks == [tasks EXCEPT ![t] = CompletedTask(tasks[t], now)]
                idx == rebuild_indexes(new_tasks)
            IN /\ Len(trajectory) < MaxLog
               /\ tasks' = new_tasks
               /\ pending_deque' = idx.pending_deque
               /\ pending_set' = idx.pending_set
               /\ worker_index' = idx.worker_index
               /\ disk' = new_tasks
               /\ trajectory' = Append(trajectory, Event(w, CompleteOk(t)))
               /\ reply' = [reply EXCEPT ![w] = CompleteOk(t)]
               /\ response' = "ok"
    /\ UNCHANGED <<now, aux>>

----------------------------------------------------------------------------
(* _handle_get_state: StateManager.load replaces the cache by the file and *)
(* rebuilds the indexes (WorkflowState.__post_init__).                     *)

GetState ==
    /\ tasks' = disk
    /\ pending_deque' = rebuild_indexes(disk).pending_deque
    /\ pending_set' = rebuild_indexes(disk).pending_set
    /\ worker_index' = rebuild_indexes(disk).worker_index
    /\ UNCHANGED <<disk, now, trajectory, reply, response, aux>>

----------------------------------------------------------------------------
(* Time passes *)

Tick ==
    /\ now < MaxTime
    /\ now' = now + 1
    /\ UNCHANGED <<tasks, pending_deque, pending_set, worker_index, disk,
                   trajectory, reply, response, aux>>

----------------------------------------------------------------------------

Next ==
    \/ \E w \in Workers : TaskClaim(w)
    \/ \E w \in Workers, t \in TaskIds : TaskComplete(w, t)
    \/ GetState
    \/ Tick

Spec == Init /\ [][Next]_vars

----------------------------------------------------------------------------
(* A store with no state: StateManager.__init__ on a worktree without a    *)
(* state file, no request served yet.                                      *)

NoState ==
    /\ tasks = Absent
    /\ pending_deque = <<>>
    /\ pending_set = {}
    /\ worker_index = [w \in Workers |-> None]
    /\ disk = Absent
    /\ now = 0
    /\ trajectory = <<>>
    /\ reply = [w \in Workers |-> Idle]
    /\ response = "nothing"
    /\ tmp = Absent
    /\ lock = None
    /\ pc = [w \in Workers |-> AtRest]

----------------------------------------------------------------------------
(* Runs without an end: one worker keeps claiming and completing, the      *)
(* other workers claim once and stop, and time passes for ever.  The       *)
(* handlers are those of Spec; the model's record of the trajectory keeps  *)
(* its first events only, and when the clock has reached MaxTime a tick    *)
(* ages every timestamp by one instead, which leaves every elapsed time    *)
(* below MaxTime as it would be and the others at MaxTime.                 *)

\* the worker that keeps working
LiveWorker == "w1"

\* the events kept of a run without an end
MaxLiveLog == 1

\* the first MaxLiveLog events of the trajectory
Keep(log, e) == IF Len(log) < MaxLiveLog THEN Append(log, e) ELSE log

\* _handle_task_claim
LiveClaim(w) ==
    /\ LET g == get_task_for_worker(tasks, pending_deque, pending_set,
                                    worker_index, w, now)
       IN IF g.task = None
          THEN /\ pending_deque' = g.pending_deque
               /\ pending_set' = g.pending_set
               /\ worker_index' = g.worker_index
               /\ response' = IF g.raised THEN "error" ELSE "no_task"
               /\ UNCHANGED <<tasks, disk, trajectory, reply>>
          ELSE LET task == tasks[g.task]
                   updated_task == ClaimedTask(task, w, now)
                   new_tasks == [tasks EXCEPT ![g.task] = updated_task]
                   idx == rebuild_indexes(new_tasks)
                   result == ClaimResult(g.task, is_retry(task, w),
                                         is_reclaim(task, w, now), now)
               IN /\ tasks' = new_tasks
                  /\ pending_deque' = idx.pending_deque
                  /\ pending_set' = idx.pending_set
                  /\ worker_index' = idx.worker_index
                  /\ disk' = new_tasks
                  /\ trajectory' = Keep(trajectory, Event(w, result))
                  /\ reply' = [reply EXCEPT ![w] = result]
                  /\ response' = "ok"
    /\ UNCHANGED <<now, aux>>

\* a worker other than the live one claims and is never heard of again
StalledClaim(w) ==
    /\ w # LiveWorker
    /\ reply[w] = Idle
    /\ LiveClaim(w)

\* _handle_task_complete, called by the live worker for the task it was
\* given
LiveComplete(t) ==
    /\ t \in DOMAIN tasks
    /\ tasks[t].status = RUNNING
    /\ OwnedBy(tasks[t], LiveWorker)
    /\ LET new_tasks == [tasks EXCEPT ![t] = CompletedTask(tasks[t], now)]
           idx == rebuild_indexes(new_tasks)
       IN /\ tasks' = new_tasks
          /\ pending_deque' = idx.pending_deque
          /\ pending_set' = idx.pending_set
          /\ worker_index' = idx.worker_index
          /\ disk' = new_tasks
          /\ trajectory' = Keep(trajectory, Event(LiveWorker, CompleteOk(t)))
          /\ reply' = [reply EXCEPT ![LiveWorker] = CompleteOk(t)]
          /\ response' = "ok"
    /\ UNCHANGED <<now, aux>>

\* a timestamp one tick older, seen from a clock that stands at MaxTime
Older(stamp) == IF stamp = NoTime \/ stamp = 0 THEN stamp ELSE stamp - 1

Aged(ts) ==
    [t \in DOMAIN ts |-> [ts[t] EXCEPT !.started_at = Older(@),
                                       !.completed_at = Older(@)]]

\* time passes
LiveTick ==
    /\ IF now < MaxTime
       THEN now' = now + 1 /\ UNCHANGED <<tasks, disk>>
       ELSE now' = now /\ tasks' = Aged(tasks) /\ disk' = Aged(disk)
    /\ UNCHANGED <<pending_deque, pending_set, worker_index, trajectory,
                   reply, response, aux>>

NextLive ==
    \/ LiveClaim(LiveWorker)
    \/ \E w \in Workers : StalledClaim(w)
    \/ \E t \in TaskIds : LiveComplete(t)
    \/ LiveTick

\* the tasks of the plans of a run without an end
LiveIds == {"t1", "t2"}

InitLive ==
    /\ Init
    /\ DOMAIN tasks \subseteq LiveIds

\* claim_task would hand the worker a task it does not hold
CanGet(w) ==
    LET g == get_task_for_worker(tasks, pending_deque, pending_set,
                                 worker_index, w, now)
    IN /\ g.task # None
       /\ ~(tasks[g.task].status = RUNNING /\ tasks[g.task].claimed_by = w)

\* the live worker keeps calling claim_task: if from some time on a call
\* would always hand it a task, it makes such a call.  This is weak
\* fairness of LiveClaim(LiveWorker) with CanGet, which implies that the
\* action is enabled, in the place of ENABLED.
KeepsClaiming ==
    \/ []<>(~CanGet(LiveWorker))
    \/ []<><<LiveClaim(LiveWorker)>>_vars

\* time advances, and the live worker keeps calling claim_task and
\* completes the task it holds
SpecLive ==
    /\ InitLive
    /\ [][NextLive]_vars
    /\ WF_vars(LiveTick)
    /\ KeepsClaiming
    /\ WF_vars(\E t \in TaskIds : LiveComplete(t))

----------------------------------------------------------------------------
(* The store with all its mutations: save, update, reset and the handlers  *)
(* that call them, next to claim_task and complete_task.  The cache may be *)
(* empty (tasks = Absent) and the state file missing (disk = Absent).  The *)
(* clock stands still here: leases and their expiry are the subject of     *)
(* Spec.                                                                   *)

StoreIds == {"t1", "t2"}
StoreWorkers == {"w1", "w2"}

\* a PENDING task as a plan or a client describes it
ClientPending(deps) ==
    [status |-> PENDING, dependencies |-> deps, started_at |-> NoTime,
     completed_at |-> NoTime, claimed_by |-> None, timeout_seconds |-> 1]

\* a task a client reports as RUNNING under worker w since time 0
ClientRunning(w) ==
    [status |-> RUNNING, dependencies |-> {}, started_at |-> 0,
     completed_at |-> NoTime, claimed_by |-> w, timeout_seconds |-> 1]

\* dependency sets a client may send: none, on t1 (for t1 a self-loop), on
\* an id that is no task
ClientDeps == {{}, {"t1"}, {"t3"}}

\* tasks mappings a client passes to save and update_state
ClientStates ==
    UNION {[{TaskOrder[i] : i \in 1..n} ->
               {ClientPending(d) : d \in ClientDeps} \cup {ClientRunning("w1")}]
           : n \in 1..Cardinality(StoreIds)}

\* what PlanDefinition.to_workflow_state builds: every task PENDING
ClientPlans ==
    {p \in ClientStates : \A t \in DOMAIN p : p[t].status = PENDING}

\* the message of the ValueError WorkflowState.validate_dag raises
DagMessage(err) ==
    IF err.kind = "missing"
    THEN "Missing dependency: " \o err.node \o " (required by " \o err.by \o ")"
    ELSE "Dependency cycle detected at: " \o err.node

\* the message of the ValueError PlanDefinition.validate_dag raises
PlanDagMessage(err) ==
    IF err.kind = "missing"
    THEN "Missing dependency: " \o err.node \o " (in " \o err.by \o ")"
    ELSE "Cycle detected at " \o err.node

\* validate_dag on each of the client's mappings (@@ makes the function an
\* explicit table, computed once)
ClientDagError == [ts \in ClientStates |-> dag_error(ts)] @@ <<>>

InitStore ==
    /\ dc = NotRunning
    /\ ex = Quiet
    /\ dm = OneDaemon
    /\ fn = NotCalled
    /\ \/ NoState
       \/ /\ tasks \in {p \in ClientPlans : validate_dag(p)}
          /\ pending_deque = rebuild_indexes(tasks).pending_deque
          /\ pending_set = rebuild_indexes(tasks).pending_set
          /\ worker_index = rebuild_indexes(tasks).worker_index
          /\ disk = tasks
          /\ now = 0
          /\ trajectory = <<>>
          /\ reply = [w \in Workers |-> Idle]
          /\ response = "nothing"
          /\ tmp = Absent
          /\ lock = None
          /\ pc = [w \in Workers |-> AtRest]

\* _ensure_state_loaded raises when nothing is cached and no file exists
NothingLoaded == tasks = Absent /\ disk = Absent

\* the handler's error response when the store raised; nothing else changes
StoreError(message) ==
    /\ response' = message
    /\ UNCHANGED <<tasks, pending_deque, pending_set, worker_index, disk, now,
                   trajectory, reply, aux>>

\* the trajectory of this specification is kept to MaxStoreLog events
LogFits == Len(trajectory') <= MaxStoreLog

\* _handle_task_claim on a store that may be empty
StoreClaim(w) ==
    IF NothingLoaded THEN StoreError("error") ELSE TaskClaim(w) /\ LogFits

\* _handle_task_complete on a store that may be empty
StoreComplete(w, t) ==
    IF NothingLoaded THEN StoreError("error") ELSE TaskComplete(w, t) /\ LogFits

\* _handle_get_state: load() drops the cache when the file is missing
StoreGetState ==
    IF disk = Absent
    THEN /\ tasks' = Absent
         /\ pending_deque' = <<>>
         /\ pending_set' = {}
         /\ worker_index' = [w \in Workers |-> None]
         /\ UNCHANGED <<disk, now, trajectory, reply, response, aux>>
    ELSE GetState

\* variant: the tasks of the previous state that ts does not name are kept
PersistMerged(ts) ==
    LET kept == IF tasks = Absent THEN ts
                ELSE [t \in DOMAIN ts \cup DOMAIN tasks |->
                         IF t \in DOMAIN ts THEN ts[t] ELSE tasks[t]]
    IN /\ tasks' = kept
       /\ pending_deque' = rebuild_indexes(kept).pending_deque
       /\ pending_set' = rebuild_indexes(kept).pending_set
       /\ worker_index' = rebuild_indexes(kept).worker_index
       /\ disk' = kept

\* the cache and the file replaced by ts, the indexes rebuilt from ts
Persist(ts) ==
    /\ tasks' = ts
    /\ pending_deque' = rebuild_indexes(ts).pending_deque
    /\ pending_set' = rebuild_indexes(ts).pending_set
    /\ worker_index' = rebuild_indexes(ts).worker_index
    /\ disk' = ts

\* _handle_update_state with updates = {"tasks": ts}: StateManager.update
\* replaces the tasks, rebuilds the indexes and writes; nothing is validated
\* and nothing is logged
UpdateState(ts) ==
    IF NothingLoaded THEN StoreError("error")
    ELSE /\ Persist(ts)
         /\ response' = "ok"
         /\ UNCHANGED <<now, trajectory, reply, aux>>

\* StateManager.save(state), called on the store directly
Save(ts) ==
    LET err == ClientDagError[ts] IN
    IF err.kind # "ok" THEN StoreError(DagMessage(err))
    ELSE /\ Persist(ts)
         /\ response' = "ok"
         /\ UNCHANGED <<now, trajectory, reply, aux>>

\* _handle_plan_import: parse_plan_content validates the plan, save validates
\* the state built from it, then the plan_import event is logged
PlanImport(p) ==
    LET err == ClientDagError[p] IN
    IF err.kind # "ok" THEN StoreError(PlanDagMessage(err))
    ELSE /\ Len(trajectory) < MaxStoreLog
         /\ Persist(p)
         /\ trajectory' = Append(trajectory,
                                 [event_type |-> "plan_import",
                                  task_count |-> Cardinality(DOMAIN p)])
         /\ response' = "ok"
         /\ UNCHANGED <<now, reply, aux>>

\* _handle_plan_reset: the file is unlinked, the cache dropped, the event logged
PlanReset ==
    /\ Len(trajectory) < MaxStoreLog
    /\ tasks' = Absent
    /\ pending_deque' = <<>>
    /\ pending_set' = {}
    /\ worker_index' = [w \in Workers |-> None]
    /\ disk' = Absent
    /\ trajectory' = Append(trajectory, [event_type |-> "plan_reset"])
    /\ response' = "ok"
    /\ UNCHANGED <<now, reply, aux>>

NextStore ==
    \/ \E w \in StoreWorkers : StoreClaim(w)
    \/ \E w \in StoreWorkers, t \in StoreIds : StoreComplete(w, t)
    \/ StoreGetState
    \/ \E ts \in ClientStates : UpdateState(ts)
    \/ \E ts \in ClientStates : Save(ts)
    \/ \E p \in ClientPlans : PlanImport(p)
    \/ PlanReset

SpecStore == InitStore /\ [][NextStore]_vars

----------------------------------------------------------------------------
(* Plan documents: parse_markdown_plan, PlanDefinition.validate_dag and    *)
(* to_workflow_state, and _handle_plan_import fed with documents, next to  *)
(* claim_task and complete_task.  A document is the rows of its group      *)
(* table (group number -> task ids) and the ids of its "### Task" sections, *)
(* which stand in the document in the order of TaskOrder.  The sections    *)
(* are those of t1 and t2; the table may name t3 as well.  The clock       *)
(* stands still.                                                           *)

MaxPlanLog == 3

\* timeout_seconds of every task of a Markdown plan
DefaultTimeout == 600

GroupNumbers == {1, 2}

\* the rows of a group table: one or two ids
GroupRows == {r \in SUBSET TaskIds : Cardinality(r) \in {1, 2}}

Documents ==
    {[groups |-> g, sections |-> s] :
        g \in UNION {[n -> GroupRows] : n \in SUBSET GroupNumbers},
        s \in (SUBSET StoreIds) \ {{}}}

\* sorted(groups.keys())
sorted_group_ids(groups) ==
    LET ids == DOMAIN groups
        n == Cardinality(ids)
    IN CHOOSE s \in [1..n -> ids] : \A i, j \in 1..n : i < j => s[i] < s[j]

\* step 4 of parse_markdown_plan: every group after the first assigns the
\* ids of the group before it to its tasks; the last assignment stays
PlanDependencies(groups, t_id) ==
    LET ids == sorted_group_ids(groups)
        at == {i \in 2..Len(ids) : t_id \in groups[ids[i]]}
    IN IF at = {} THEN {}
       ELSE groups[ids[(CHOOSE i \in at : \A j \in at : j <= i) - 1]]

\* the task sections no group refers to
orphan_tasks(doc) == doc.sections \ UNION {doc.groups[g] : g \in DOMAIN doc.groups}

\* parse_markdown_plan: the PlanDefinition, or the ValueError of step 5
parse_markdown_plan(doc) ==
    IF orphan_tasks(doc) # {}
    THEN [kind |-> "error", message |-> "Orphan tasks not in any group"]
    ELSE [kind |-> "plan",
          tasks |-> [t_id \in doc.sections |->
                        [dependencies |-> PlanDependencies(doc.groups, t_id),
                         timeout_seconds |-> DefaultTimeout]]]

\* PlanDefinition.to_workflow_state
to_workflow_state(plan) ==
    [tid \in DOMAIN plan |->
        [status |-> PENDING, dependencies |-> plan[tid].dependencies,
         started_at |-> NoTime, completed_at |-> NoTime, claimed_by |-> None,
         timeout_seconds |-> plan[tid].timeout_seconds]]

\* parse_plan_content on a Markdown document: parse_markdown_plan, then
\* plan.validate_dag()
parse_plan_content(doc) ==
    LET parsed == parse_markdown_plan(doc) IN
    IF parsed.kind = "error" THEN parsed
    ELSE LET err == dag_error(parsed.tasks) IN
         IF err.kind # "ok"
         THEN [kind |-> "error", message |-> PlanDagMessage(err)]
         ELSE parsed

\* what _handle_plan_import makes of each document before anything is
\* stored: parse_plan_content, to_workflow_state and the validation in save
\* (@@ makes the function an explicit table, computed once)
ImportedDocument ==
    [doc \in Documents |->
        LET parsed == parse_plan_content(doc) IN
        IF parsed.kind = "error" THEN parsed
        ELSE LET state == to_workflow_state(parsed.tasks)
                 err == dag_error(state)
             IN IF err.kind # "ok"
                THEN [kind |-> "error", message |-> DagMessage(err)]
                ELSE [kind |-> "state", state |-> state,
                      task_count |-> Cardinality(DOMAIN parsed.tasks)]] @@ <<>>

\* _handle_plan_import of a document: the state built from the plan is
\* saved, then the plan_import event is logged
ImportDocument(doc) ==
    LET imported == ImportedDocument[doc] IN
    IF imported.kind = "error" THEN StoreError(imported.message)
    ELSE /\ Len(trajectory) < MaxPlanLog
         /\ Persist(imported.state)
         /\ trajectory' = Append(trajectory,
                                 [event_type |-> "plan_import",
                                  task_count |-> imported.task_count])
         /\ response' = "ok"
         /\ UNCHANGED <<now, reply, aux>>

\* _handle_task_claim and _handle_task_complete on a store that may be empty
PlanClaim(w) ==
    IF NothingLoaded THEN StoreError("error")
    ELSE TaskClaim(w) /\ Len(trajectory') <= MaxPlanLog

PlanComplete(w, t) ==
    IF NothingLoaded THEN StoreError("error")
    ELSE TaskComplete(w, t) /\ Len(trajectory') <= MaxPlanLog

NextPlan ==
    \/ \E w \in StoreWorkers : PlanClaim(w)
    \/ \E w \in StoreWorkers, t \in StoreIds : PlanComplete(w, t)
    \/ \E doc \in Documents : ImportDocument(doc)

SpecPlan == InitStore /\ [][NextPlan]_vars

----------------------------------------------------------------------------
(* detect_cycle run step by step on every graph over three keys: any       *)
(* adjacency lists without repetition, in any order, over the keys and     *)
(* over nodes that are not keys of the graph.                              *)

GraphOrder == <<"a", "b", "c">>
GraphNodes == SeqToSet(GraphOrder)

AdjLists ==
    UNION {{l \in [1..n -> GraphNodes] : \A i, j \in 1..n : l[i] = l[j] => i = j}
           : n \in 0..Len(GraphOrder)}

Graphs ==
    UNION {{[order |-> SubSeq(GraphOrder, 1, n), adj |-> adj] :
                adj \in [{GraphOrder[i] : i \in 1..n} -> AdjLists]}
           : n \in 1..Len(GraphOrder)}

InitDC ==
    /\ NoState
    /\ \E graph \in Graphs : dc = DCEnter(graph)
    /\ ex = Quiet
    /\ dm = OneDaemon
    /\ fn = NotCalled

\* the for loop over the keys, up to the next entry of the while loop
DetectCycleFor ==
    /\ dc.at = "for"
    /\ dc' = DCForStep(dc)
    /\ UNCHANGED <<tasks, pending_deque, pending_set, worker_index, disk, now,
                   trajectory, reply, response, tmp, lock, pc, ex, dm, fn>>

\* one iteration of the while loop over the stack
DetectCycleWhile ==
    /\ dc.at = "while"
    /\ dc' = DCWhileStep(dc)
    /\ UNCHANGED <<tasks, pending_deque, pending_set, worker_index, disk, now,
                   trajectory, reply, response, tmp, lock, pc, ex, dm, fn>>

NextDC == DetectCycleFor \/ DetectCycleWhile

\* the call runs on its own thread and is never suspended for ever
SpecDC == InitDC /\ [][NextDC]_vars /\ WF_vars(NextDC)

----------------------------------------------------------------------------
(* TrajectoryLogger.tail and _tail_reverse_seek, run on the bytes of the   *)
(* trajectory file.  The file is a string; a line is well formed when      *)
(* json.loads accepts it.  The lines written here are JSON texts made of   *)
(* digits and brackets ("[1]" is an event), lines that are no JSON ("x",   *)
(* "[1") and blank lines; the file may end in a line without its newline,  *)
(* as a write that was cut short leaves it.  block_size is scaled from     *)
(* 4096 bytes to 4, max_buffer_bytes stays 256 blocks.                     *)

block_size == 4

max_buffer_bytes == 256 * block_size

\* the lines a file is made of
LineChoices == {"[1]", "[2]", "[3]", "x", ""}

\* the lines a cut-short write leaves at the end of the file
TornLines == {"", "[1"}

MaxLines == 4

Byte(s, i) == SubSeq(s, i, i)

\* chunk.count(b)
RECURSIVE count(_, _)
count(s, b) ==
    IF s = "" THEN 0
    ELSE (IF Byte(s, 1) = b THEN 1 ELSE 0) + count(SubSeq(s, 2, Len(s)), b)

\* buffer.split(sep)
RECURSIVE split(_, _)
split(s, sep) ==
    LET at == {i \in 1..Len(s) : Byte(s, i) = sep} IN
    IF at = {} THEN <<s>>
    ELSE LET i == CHOOSE i \in at : \A j \in at : i <= j
         IN <<SubSeq(s, 1, i - 1)>> \o split(SubSeq(s, i + 1, Len(s)), sep)

\* line.strip()
RECURSIVE strip(_)
strip(s) ==
    IF s = "" THEN s
    ELSE IF Byte(s, 1) \in {" ", "\n"} THEN strip(SubSeq(s, 2, Len(s)))
    ELSE IF Byte(s, Len(s)) \in {" ", "\n"}
         THEN strip(SubSeq(s, 1, Len(s) - 1))
    ELSE s

Digits == {"1", "2", "3"}

\* json.loads(line) does not raise: the line is a number, or an array that
\* is empty or holds one JSON value
RECURSIVE json_loads_ok(_)
json_loads_ok(s) ==
    \/ s # "" /\ \A i \in 1..Len(s) : Byte(s, i) \in Digits
    \/ /\ Len(s) >= 2
       /\ Byte(s, 1) = "["
       /\ Byte(s, Len(s)) = "]"
       /\ Len(s) = 2 \/ json_loads_ok(SubSeq(s, 2, Len(s) - 1))

\* the for loop over the lines: blank lines and lines json.loads rejects are
\* skipped
RECURSIVE parse_lines(_)
parse_lines(lines) ==
    IF lines = <<>> THEN <<>>
    ELSE LET line == strip(Head(lines)) IN
         IF line = "" \/ ~json_loads_ok(line) THEN parse_lines(Tail(lines))
         ELSE <<line>> \o parse_lines(Tail(lines))

\* b"".join(reversed(chunks))
RECURSIVE join_reversed(_)
join_reversed(chunks) ==
    IF chunks = <<>> THEN ""
    ELSE join_reversed(Tail(chunks)) \o Head(chunks)

\* events[-n:] if len(events) > n else events
last(events, n) ==
    IF Len(events) > n THEN SubSeq(events, Len(events) - n + 1, Len(events))
    ELSE events

\* the files: up to MaxLines lines, each with its newline, and possibly the
\* beginning of one more line
RECURSIVE FilesOf(_)
FilesOf(k) ==
    IF k = 0 THEN {""}
    ELSE LET shorter == FilesOf(k - 1)
         IN shorter \cup {f \o l \o "\n" : f \in shorter, l \in LineChoices}

Files == {f \o t : f \in FilesOf(MaxLines), t \in TornLines}

\* the events of the whole file, in file order
EventsOf(file) == parse_lines(split(file, "\n"))

\* a call tail(n) has been entered; the file holds these bytes, or does not
\* exist
TailCall(file, exists, n) ==
    [at |-> "tail", file |-> file, exists |-> exists, n |-> n]

InitTail ==
    /\ \E file \in Files, exists \in BOOLEAN, n \in 0..2 :
          /\ ~exists => file = ""
          /\ fn = TailCall(file, exists, n)
          /\ trajectory = EventsOf(file)
    /\ tasks = Absent
    /\ pending_deque = <<>>
    /\ pending_set = {}
    /\ worker_index = [w \in Workers |-> None]
    /\ disk = Absent
    /\ now = 0
    /\ reply = [w \in Workers |-> Idle]
    /\ response = "nothing"
    /\ tmp = Absent
    /\ lock = None
    /\ pc = [w \in Workers |-> AtRest]
    /\ dc = NotRunning
    /\ ex = Quiet
    /\ dm = OneDaemon

\* the call has returned the events
Returned(d, events) ==
    [at |-> "done", file |-> d.file, exists |-> d.exists, n |-> d.n,
     result |-> events]

\* tail up to the loop: n <= 0 and a missing file return []; so does
\* _tail_reverse_seek on an empty file
TailEnter ==
    /\ fn.at = "tail"
    /\ fn' = IF fn.n <= 0 \/ ~fn.exists THEN Returned(fn, <<>>)
             ELSE IF Len(fn.file) = 0 THEN Returned(fn, <<>>)
             ELSE [at |-> "loop", file |-> fn.file, exists |-> TRUE,
                   n |-> fn.n, chunks |-> <<>>, position |-> Len(fn.file),
                   bytes_read |-> 0, newline_count |-> 0]
    /\ UNCHANGED <<tasks, pending_deque, pending_set, worker_index, disk, now,
                   trajectory, reply, response, tmp, lock, pc, dc, ex, dm>>

\* one iteration of while True: one block is read, from the end backwards
TailRead ==
    /\ fn.at = "loop"
    /\ fn' = IF fn.bytes_read >= max_buffer_bytes THEN [fn EXCEPT !.at = "join"]
             ELSE LET read_size == IF block_size < fn.position THEN block_size
                                   ELSE fn.position
                      position == fn.position - read_size
                      chunk == SubSeq(fn.file, position + 1, position + read_size)
                      newline_count == fn.newline_count + count(chunk, "\n")
                  IN [fn EXCEPT !.position = position,
                                !.chunks = Append(@, chunk),
                                !.bytes_read = @ + read_size,
                                !.newline_count = newline_count,
                                !.at = IF newline_count > fn.n \/ position = 0
                                       THEN "join" ELSE "loop"]
    /\ UNCHANGED <<tasks, pending_deque, pending_set, worker_index, disk, now,
                   trajectory, reply, response, tmp, lock, pc, dc, ex, dm>>

\* after the loop: the chunks are joined and split into lines, the lines
\* are parsed and the last n events returned
TailReturn ==
    /\ fn.at = "join"
    /\ fn' = Returned(fn, last(parse_lines(split(join_reversed(fn.chunks), "\n")),
                               fn.n))
    /\ UNCHANGED <<tasks, pending_deque, pending_set, worker_index, disk, now,
                   trajectory, reply, response, tmp, lock, pc, dc, ex, dm>>

NextTail == TailEnter \/ TailRead \/ TailReturn

SpecTail == InitTail /\ [][NextTail]_vars

----------------------------------------------------------------------------
(* claim_task with get_claimable_task run step by step: one step per       *)
(* iteration of the while loop over the pending deque and of the for loop  *)
(* over the tasks.  The call runs under StateManager._lock, so no other    *)
(* handler touches the store before it has returned; the deque and the set *)
(* are changed in place.                                                   *)

MaxScanLog == 3

ScanWorkers == {"w1", "w2"}

\* variant: the loop gives up at the first entry that is blocked
loop_condition_one_pass(dq, rotations, max_rotations) ==
    dq # <<>> /\ rotations < 1

\* while self._pending_deque and rotations <= max_rotations
loop_condition(dq, rotations, max_rotations) ==
    dq # <<>> /\ rotations <= max_rotations

\* the locals of the call made for worker w
ScanLocals(at, w, rotations, max_rotations, keys, task, raised) ==
    [at |-> at, worker_id |-> w, rotations |-> rotations,
     max_rotations |-> max_rotations, keys |-> keys, task |-> task,
     raised |-> raised]

\* get_task_for_worker finds the worker's own RUNNING task
HasOwnTask(w) ==
    LET existing_tid == worker_index[w] IN
    /\ existing_tid # None
    /\ existing_tid \in DOMAIN tasks
    /\ tasks[existing_tid].status = RUNNING
    /\ tasks[existing_tid].claimed_by = w

\* claim_task of a worker without a task of its own: get_task_for_worker
\* drops the worker's index entry and calls get_claimable_task
ScanEnter(w) ==
    /\ fn = NotCalled
    /\ ~HasOwnTask(w)
    /\ Len(trajectory) < MaxScanLog
    /\ worker_index' = [worker_index EXCEPT ![w] = None]
    /\ fn' = ScanLocals("while", w, 0, Len(pending_deque), <<>>, None, FALSE)
    /\ UNCHANGED <<tasks, pending_deque, pending_set, disk, now, trajectory,
                   reply, response, tmp, lock, pc, dc, ex, dm>>

\* one test of the while condition and, when it holds, one iteration
ScanWhile ==
    /\ fn.at = "while"
    /\ IF ~loop_condition(pending_deque, fn.rotations, fn.max_rotations)
       THEN /\ fn' = [fn EXCEPT !.at = "for", !.keys = Keys(tasks)]
            /\ UNCHANGED <<pending_deque, pending_set>>
       ELSE LET task_id == Head(pending_deque) IN
            IF task_id \notin DOMAIN tasks \/ tasks[task_id].status # PENDING
            THEN /\ pending_deque' = Tail(pending_deque)
                 /\ pending_set' = pending_set \ {task_id}
                 /\ fn' = [fn EXCEPT !.max_rotations = Len(Tail(pending_deque))]
            ELSE LET sat == _are_deps_satisfied(tasks, tasks[task_id]) IN
                 IF sat = "yes"
                 THEN /\ fn' = [fn EXCEPT !.at = "return", !.task = task_id]
                      /\ UNCHANGED <<pending_deque, pending_set>>
                 ELSE IF sat = "raise"
                 THEN /\ fn' = [fn EXCEPT !.at = "return", !.raised = TRUE]
                      /\ UNCHANGED <<pending_deque, pending_set>>
                 ELSE /\ pending_deque' = Append(Tail(pending_deque), task_id)
                      /\ fn' = [fn EXCEPT !.rotations = @ + 1]
                      /\ UNCHANGED pending_set
    /\ UNCHANGED <<tasks, worker_index, disk, now, trajectory, reply, response,
                   tmp, lock, pc, dc, ex, dm>>

\* one iteration of for task in self.tasks.values(), or its end
ScanFor ==
    /\ fn.at = "for"
    /\ fn' = IF fn.keys = <<>> THEN [fn EXCEPT !.at = "return"]
             ELSE LET task == tasks[Head(fn.keys)]
                      sat == _are_deps_satisfied(tasks, task)
                  IN IF ~Reclaimable(task, now) \/ sat = "no"
                     THEN [fn EXCEPT !.keys = Tail(@)]
                     ELSE IF sat = "yes"
                     THEN [fn EXCEPT !.at = "return", !.task = Head(fn.keys)]
                     ELSE [fn EXCEPT !.at = "return", !.raised = TRUE]
    /\ UNCHANGED <<tasks, pending_deque, pending_set, worker_index, disk, now,
                   trajectory, reply, response, tmp, lock, pc, dc, ex, dm>>

\* get_claimable_task has returned: claim_task claims the task it was given
\* and the handler logs and answers, as in TaskClaim
ScanReturn ==
    /\ fn.at = "return"
    /\ LET w == fn.worker_id IN
       IF fn.task = None
       THEN /\ response' = IF fn.raised THEN "error" ELSE "no_task"
            /\ UNCHANGED <<tasks, pending_deque, pending_set, worker_index,
                           disk, trajectory, reply>>
       ELSE LET task == tasks[fn.task]
                updated_task == ClaimedTask(task, w, now)
                new_tasks == [tasks EXCEPT ![fn.task] = updated_task]
                idx == rebuild_indexes(new_tasks)
                result == ClaimResult(fn.task, is_retry(task, w),
                                      is_reclaim(task, w, now), now)
            IN /\ tasks' = new_tasks
               /\ pending_deque' = idx.pending_deque
               /\ pending_set' = idx.pending_set
               /\ worker_index' = idx.worker_index
               /\ disk' = new_tasks
               /\ trajectory' = Append(trajectory, Event(w, result))
               /\ reply' = [reply EXCEPT ![w] = result]
               /\ response' = "ok"
    /\ fn' = NotCalled
    /\ UNCHANGED <<now, tmp, lock, pc, dc, ex, dm>>

\* the steps of a call in progress
ScanStep == ScanWhile \/ ScanFor \/ ScanReturn

\* the handlers that run while no call is in progress: claim_task of a
\* worker that holds a task, complete_task, and the clock
NextScan ==
    \/ \E w \in ScanWorkers : ScanEnter(w)
    \/ ScanStep
    \/ \E w \in ScanWorkers :
          /\ fn = NotCalled
          /\ HasOwnTask(w)
          /\ Len(trajectory) < MaxScanLog
          /\ TaskClaim(w)
    \/ \E w \in ScanWorkers, t \in TaskIds :
          /\ fn = NotCalled
          /\ Len(trajectory) < MaxScanLog
          /\ TaskComplete(w, t)
    \/ fn = NotCalled /\ Tick

\* the thread that runs the call is never suspended for ever
SpecScan == Init /\ [][NextScan]_vars /\ WF_vars(ScanStep)

----------------------------------------------------------------------------
(* The handlers step by step, with the state lock, the temp file, write    *)
(* failures and a daemon that may stop at any point and be started again.  *)
(* The store holds a validated plan; the clock stands still.               *)

MaxIOLog == 3

\* a file that holds the beginning of a JSON document
Partial == [state \in {None} |-> "partial"]

\* the steps of _handle_task_claim and _handle_task_complete after the new
\* state has been computed under the lock, in program order: _write_atomic
\* (open and write, flush and fsync, rename), self._state = new_state, the
\* end of the with block, trajectory_logger.log, the return of the response
HandlerStepsCacheFirst ==
    <<"commit", "write", "fsync", "rename", "unlock", "log", "respond">>

HandlerStepsLogUnderLock ==
    <<"write", "fsync", "rename", "commit", "log", "unlock", "respond">>

HandlerSteps ==
    <<"write", "fsync", "rename", "commit", "unlock", "log", "respond">>

\* variant: the content is written to the state file itself
open_and_write_in_place(files, content) == [files EXCEPT !.disk = Partial]

\* temp_file.open("w") truncates the temp file; f.write has put part of the
\* content into it
open_and_write(files, content) == [files EXCEPT !.tmp = Partial]

\* f.write, f.flush and os.fsync have returned: the temp file is complete
flush_and_fsync(files, content) == [files EXCEPT !.tmp = content]

\* temp_file.rename(self.state_file)
rename(files) == [tmp |-> Absent, disk |-> files.tmp]

\* json.loads of the state file; a file that is no JSON document raises
Loaded(file) == IF file = Partial THEN Absent ELSE file

\* handler thread w is at the given step
At(w, step) == pc[w].at = "busy" /\ HandlerSteps[pc[w].i] = step

\* handler thread w has performed the given step
Past(w, step) ==
    pc[w].at = "busy" /\ \E j \in 1..(pc[w].i - 1) : HandlerSteps[j] = step

InFlight == Cardinality({w \in Workers : pc[w].at = "busy"})

Enter(w, new_tasks, result) ==
    /\ Len(trajectory) + InFlight < MaxIOLog
    /\ lock' = w
    /\ pc' = [pc EXCEPT ![w] = [at |-> "busy", i |-> 1, new |-> new_tasks,
                                 result |-> result]]

Advance(w) ==
    pc' = [pc EXCEPT ![w] = IF pc[w].i = Len(HandlerSteps) THEN AtRest
                             ELSE [pc[w] EXCEPT !.i = @ + 1]]

InitIO ==
    /\ tasks \in {p \in ClientPlans : validate_dag(p)}
    /\ pending_deque = rebuild_indexes(tasks).pending_deque
    /\ pending_set = rebuild_indexes(tasks).pending_set
    /\ worker_index = rebuild_indexes(tasks).worker_index
    /\ disk = tasks
    /\ now = 0
    /\ trajectory = <<>>
    /\ reply = [w \in Workers |-> Idle]
    /\ response = "nothing"
    /\ tmp = Absent
    /\ lock = None
    /\ pc = [w \in Workers |-> AtRest]
    /\ dc = NotRunning
    /\ ex = Quiet
    /\ dm = OneDaemon
    /\ fn = NotCalled

\* _handle_task_claim up to the call of _write_atomic: the lock is taken,
\* the task is looked up and the new state is built
IOClaim(w) ==
    /\ pc[w] = AtRest
    /\ lock = None
    /\ IF tasks = Absent
       THEN /\ response' = "error"
            /\ UNCHANGED <<pending_deque, pending_set, worker_index, lock, pc>>
       ELSE LET g == get_task_for_worker(tasks, pending_deque, pending_set,
                                         worker_index, w, now)
            IN /\ pending_deque' = g.pending_deque
               /\ pending_set' = g.pending_set
               /\ worker_index' = g.worker_index
               /\ IF g.task = None
                  THEN /\ response' = IF g.raised THEN "error" ELSE "no_task"
                       /\ UNCHANGED <<lock, pc>>
                  ELSE LET task == tasks[g.task]
                       IN /\ Enter(w, [tasks EXCEPT ![g.task] =
                                           ClaimedTask(task, w, now)],
                                   ClaimResult(g.task, is_retry(task, w),
                                               is_reclaim(task, w, now), now))
                          /\ UNCHANGED response
    /\ UNCHANGED <<tasks, disk, tmp, now, trajectory, reply, dc, ex, dm, fn>>

\* _handle_task_complete up to the call of _write_atomic
IOComplete(w, t) ==
    /\ pc[w] = AtRest
    /\ lock = None
    /\ IF tasks = Absent
       THEN response' = "error" /\ UNCHANGED <<lock, pc>>
       ELSE IF t \notin DOMAIN tasks
       THEN response' = "not_found" /\ UNCHANGED <<lock, pc>>
       ELSE IF ~OwnedBy(tasks[t], w)
       THEN response' = "not_owned" /\ UNCHANGED <<lock, pc>>
       ELSE /\ Enter(w, [tasks EXCEPT ![t] = CompletedTask(tasks[t], now)],
                     CompleteOk(t))
            /\ UNCHANGED response
    /\ UNCHANGED <<tasks, pending_deque, pending_set, worker_index, disk, tmp,
                   now, trajectory, reply, dc, ex, dm, fn>>

IOOpenWrite(w) ==
    /\ At(w, "write")
    /\ LET files == open_and_write([tmp |-> tmp, disk |-> disk], pc[w].new)
       IN tmp' = files.tmp /\ disk' = files.disk
    /\ Advance(w)
    /\ UNCHANGED <<tasks, pending_deque, pending_set, worker_index, now,
                   trajectory, reply, response, lock, dc, ex, dm, fn>>

IOFsync(w) ==
    /\ At(w, "fsync")
    /\ LET files == flush_and_fsync([tmp |-> tmp, disk |-> disk], pc[w].new)
       IN tmp' = files.tmp /\ disk' = files.disk
    /\ Advance(w)
    /\ UNCHANGED <<tasks, pending_deque, pending_set, worker_index, now,
                   trajectory, reply, response, lock, dc, ex, dm, fn>>

IORename(w) ==
    /\ At(w, "rename")
    /\ LET files == rename([tmp |-> tmp, disk |-> disk])
       IN tmp' = files.tmp /\ disk' = files.disk
    /\ Advance(w)
    /\ UNCHANGED <<tasks, pending_deque, pending_set, worker_index, now,
                   trajectory, reply, response, lock, dc, ex, dm, fn>>

\* self._state = new_state; the indexes of new_state were rebuilt before
\* the write
IOCommit(w) ==
    /\ At(w, "commit")
    /\ tasks' = pc[w].new
    /\ pending_deque' = rebuild_indexes(pc[w].new).pending_deque
    /\ pending_set' = rebuild_indexes(pc[w].new).pending_set
    /\ worker_index' = rebuild_indexes(pc[w].new).worker_index
    /\ Advance(w)
    /\ UNCHANGED <<disk, tmp, now, trajectory, reply, response, lock, dc, ex, dm, fn>>

\* the with self._lock block is left and the store call returns
IOUnlock(w) ==
    /\ At(w, "unlock")
    /\ lock' = None
    /\ Advance(w)
    /\ UNCHANGED <<tasks, pending_deque, pending_set, worker_index, disk, tmp,
                   now, trajectory, reply, response, dc, ex, dm, fn>>

\* trajectory_logger.log(event)
IOLog(w) ==
    /\ At(w, "log")
    /\ trajectory' = Append(trajectory, Event(w, pc[w].result))
    /\ Advance(w)
    /\ UNCHANGED <<tasks, pending_deque, pending_set, worker_index, disk, tmp,
                   now, reply, response, lock, dc, ex, dm, fn>>

\* the handler returns {"status": "ok", ...}
IORespond(w) ==
    /\ At(w, "respond")
    /\ reply' = [reply EXCEPT ![w] = pc[w].result]
    /\ response' = "ok"
    /\ Advance(w)
    /\ UNCHANGED <<tasks, pending_deque, pending_set, worker_index, disk, tmp,
                   now, trajectory, lock, dc, ex, dm, fn>>

\* open, write, fsync or rename raises OSError: the with block is left, the
\* handler's except clause returns an error response and logs nothing
IOWriteFail(w) ==
    /\ At(w, "write") \/ At(w, "fsync") \/ At(w, "rename")
    /\ lock' = None
    /\ pc' = [pc EXCEPT ![w] = AtRest]
    /\ response' = "error"
    /\ UNCHANGED <<tasks, pending_deque, pending_set, worker_index, disk, tmp,
                   now, trajectory, reply, dc, ex, dm, fn>>

\* the daemon process ends at any point, taking the cache, the lock and the
\* handler threads with it, and a new daemon is started on the worktree:
\* HarnessDaemon.__init__ calls state_manager.load()
CrashRestart ==
    /\ tasks' = Loaded(disk)
    /\ pending_deque' = IF tasks' = Absent THEN <<>>
                        ELSE rebuild_indexes(tasks').pending_deque
    /\ pending_set' = IF tasks' = Absent THEN {}
                      ELSE rebuild_indexes(tasks').pending_set
    /\ worker_index' = IF tasks' = Absent THEN [w \in Workers |-> None]
                       ELSE rebuild_indexes(tasks').worker_index
    /\ lock' = None
    /\ pc' = [w \in Workers |-> AtRest]
    /\ response' = "started"
    /\ UNCHANGED <<disk, tmp, now, trajectory, reply, dc, ex, dm, fn>>

\* the steps of the handler threads of a daemon that keeps running
NextThreads ==
    \/ \E w \in StoreWorkers : IOClaim(w)
    \/ \E w \in StoreWorkers, t \in StoreIds : IOComplete(w, t)
    \/ \E w \in StoreWorkers : IOOpenWrite(w)
    \/ \E w \in StoreWorkers : IOFsync(w)
    \/ \E w \in StoreWorkers : IORename(w)
    \/ \E w \in StoreWorkers : IOCommit(w)
    \/ \E w \in StoreWorkers : IOUnlock(w)
    \/ \E w \in StoreWorkers : IOLog(w)
    \/ \E w \in StoreWorkers : IORespond(w)
    \/ \E w \in StoreWorkers : IOWriteFail(w)

SpecThreads == InitIO /\ [][NextThreads]_vars

NextIO == NextThreads \/ CrashRestart

SpecIO == InitIO /\ [][NextIO]_vars

----------------------------------------------------------------------------
(* Subprocess execution: LocalRuntime.execute, safe_git_exec, safe_commit  *)
(* and the handlers _handle_exec, _handle_git, _handle_status and          *)
(* _handle_ping, each on the thread of its connection.                     *)

\* the variables these threads leave alone
store == <<tasks, pending_deque, pending_set, worker_index, disk, now, reply,
           response, tmp, pc, dc, dm, fn>>

\* s.startswith(p)
startswith(s, p) == Len(s) >= Len(p) /\ SubSeq(s, 1, Len(p)) = p

_DANGEROUS_OPTIONS ==
    {"-c", "--config", "--upload-pack", "--exec", "-u", "--receive-pack"}

_DANGEROUS_PREFIXES ==
    {"-c=", "--config=", "--upload-pack=", "--exec=", "--receive-pack="}

\* variant: only the exact options are refused
dangerous_exact_only(args) ==
    \E i \in DOMAIN args : args[i] \in _DANGEROUS_OPTIONS

\* _validate_git_args raises ValueError
dangerous(args) ==
    \E i \in DOMAIN args :
        \/ args[i] \in _DANGEROUS_OPTIONS
        \/ \E prefix \in _DANGEROUS_PREFIXES : startswith(args[i], prefix)

\* one step of a handler thread
St(op, cmd) == [op |-> op, cmd |-> cmd]

\* variant: the lock is never taken
execute_unlocked(cmd, exclusive) == <<St("spawn", cmd), St("wait", cmd)>>

\* LocalRuntime.execute: subprocess.run, inside with GLOBAL_EXEC_LOCK when
\* exclusive
execute(cmd, exclusive) ==
    IF exclusive
    THEN <<St("acquire", None), St("spawn", cmd), St("wait", cmd),
           St("release", None)>>
    ELSE <<St("spawn", cmd), St("wait", cmd)>>

\* variant: git add and git commit each take the lock for themselves
safe_commit_two_acquisitions ==
    execute("add", TRUE) \o <<St("check_add", None)>>
        \o execute("commit", TRUE) \o <<St("respond", None)>>

\* safe_commit: git add -A, then git commit unless the add failed, inside
\* one with GLOBAL_EXEC_LOCK block
safe_commit ==
    <<St("acquire", None)>> \o execute("add", FALSE)
        \o <<St("check_add", None)>> \o execute("commit", FALSE)
        \o <<St("release", None), St("respond", None)>>

\* safe_git_exec: the arguments are validated, then git runs with
\* exclusive = not read_only
safe_git_exec(args, read_only) ==
    IF dangerous(args) THEN <<St("raise", None)>>
    ELSE execute("git", ~read_only)

\* variant: the state lock is still held while the trajectory is read
StatusStepsNested ==
    <<St("state_acquire", None), St("tail_acquire", None),
      St("tail_release", None), St("state_release", None),
      St("respond", None)>>

\* _handle_status: state_manager.load() under the state lock, then
\* trajectory_logger.tail() under the trajectory lock
StatusSteps ==
    <<St("state_acquire", None), St("state_release", None),
      St("tail_acquire", None), St("tail_release", None),
      St("respond", None)>>

ExecReq(exclusive) == [kind |-> "exec", exclusive |-> exclusive]
GitReq(args, read_only) ==
    [kind |-> "git", args |-> args, read_only |-> read_only]
CommitReq == [kind |-> "commit"]
StatusReq == [kind |-> "status"]
PingReq == [kind |-> "ping"]

\* what the thread does for the request, in program order
Program(req) ==
    CASE req.kind = "exec" ->
            execute("cmd", req.exclusive)
                \o <<St("log", None), St("respond", None)>>
      [] req.kind = "git" ->
            LET run == safe_git_exec(req.args, req.read_only)
            IN IF run[Len(run)].op = "raise" THEN run
               ELSE run \o <<St("respond", None)>>
      [] req.kind = "commit" -> safe_commit
      [] req.kind = "status" -> StatusSteps
      [] OTHER -> <<St("respond", None)>>

\* variant: the exception leaves the with block without releasing the lock
Unwind_lock_kept(c, req) ==
    IF req.kind = "exec"
    THEN <<St("log", None), St("respond", None)>>
    ELSE <<St("raise", None)>>

\* what is left to do when subprocess.run raised TimeoutExpired: the with
\* block releases the lock; _handle_exec logs the timeout and answers ok,
\* the other callers let the exception through
Unwind(c, req) ==
    (IF ex.mutex = c THEN <<St("release", None)>> ELSE <<>>)
        \o (IF req.kind = "exec"
            THEN <<St("log", None), St("respond", None)>>
            ELSE <<St("raise", None)>>)

\* what is left to do when subprocess.run raised because the child could
\* not be started: the with block releases the lock, and the exception is
\* answered with an error response by except Exception in _handle_exec or
\* in HarnessHandler.handle
UnwindFailed(c) ==
    (IF ex.mutex = c THEN <<St("release", None)>> ELSE <<>>)
        \o <<St("raise", None)>>

\* decode_signal: the signal name of a negative return code
decode_signal(returncode) ==
    IF returncode >= 0 THEN None
    ELSE IF returncode = 0 - 15 THEN "SIGTERM"
    ELSE IF returncode = 0 - 9 THEN "SIGKILL"
    ELSE "SIG"

\* the return codes of a subprocess that ended by itself
ReturnCodes == {0, 1}

\* the return code _handle_exec reports for a timeout
SIGTERM == -15

Busy(c) == ex.th[c].at = "busy"

\* thread c is about to perform a step with the given op
Next_(c, op) == Busy(c) /\ ex.th[c].prog[1].op = op

\* the threads that will append an exec event
ExecInFlight ==
    Cardinality({c \in Conns : Busy(c) /\ ex.th[c].req.kind = "exec"})

\* the thread has performed the step at the head of its program
Proceed(c, th) == [th EXCEPT !.prog = Tail(@)]

\* a request arrives on connection c and its handler thread starts
Accept(c, req) ==
    /\ ~Busy(c)
    /\ req.kind = "exec" => Len(trajectory) + InFlight + ExecInFlight < MaxIOLog
    /\ ex' = [ex EXCEPT !.th[c] = [at |-> "busy", req |-> req,
                                    prog |-> Program(req), sub |-> FALSE,
                                    ran |-> <<>>, rc |-> 0],
                        !.out[c] = NoOutcome]
    /\ UNCHANGED <<store, trajectory, lock>>

\* with GLOBAL_EXEC_LOCK: blocks until the lock is free
ExAcquire(c) ==
    /\ Next_(c, "acquire")
    /\ ex.mutex = None
    /\ ex' = [ex EXCEPT !.mutex = c, !.th[c] = Proceed(c, @)]
    /\ UNCHANGED <<store, trajectory, lock>>

ExRelease(c) ==
    /\ Next_(c, "release")
    /\ ex' = [ex EXCEPT !.mutex = None, !.th[c] = Proceed(c, @)]
    /\ UNCHANGED <<store, trajectory, lock>>

\* subprocess.run starts the child
ExSpawn(c) ==
    /\ Next_(c, "spawn")
    /\ ex' = [ex EXCEPT !.th[c] =
                 [Proceed(c, @) EXCEPT !.sub = TRUE,
                                       !.ran = Append(@, ex.th[c].prog[1].cmd)]]
    /\ UNCHANGED <<store, trajectory, lock>>

\* subprocess.run raises without a child: the program does not exist or
\* may not be executed
ExSpawnFail(c) ==
    /\ Next_(c, "spawn")
    /\ ex' = [ex EXCEPT !.th[c] = [@ EXCEPT !.prog = UnwindFailed(c)]]
    /\ UNCHANGED <<store, trajectory, lock>>

\* the child ends and subprocess.run returns its return code
ExWait(c, rc) ==
    /\ Next_(c, "wait")
    /\ ex' = [ex EXCEPT !.th[c] =
                 [Proceed(c, @) EXCEPT !.sub = FALSE, !.rc = rc]]
    /\ UNCHANGED <<store, trajectory, lock>>

\* the timeout expires: subprocess.run kills the child and raises
\* TimeoutExpired; safe_commit passes no timeout
ExTimeout(c) ==
    /\ Next_(c, "wait")
    /\ ex.th[c].req.kind # "commit"
    /\ ex' = [ex EXCEPT !.th[c] =
                 [@ EXCEPT !.sub = FALSE, !.rc = SIGTERM,
                           !.prog = Unwind(c, ex.th[c].req)]]
    /\ UNCHANGED <<store, trajectory, lock>>

\* if add_result.returncode != 0: return add_result, leaving the with block
ExCheckAdd(c) ==
    /\ Next_(c, "check_add")
    /\ ex' = [ex EXCEPT !.th[c] =
                 IF ex.th[c].rc # 0
                 THEN [@ EXCEPT !.prog =
                          (IF ex.mutex = c THEN <<St("release", None)>>
                           ELSE <<>>) \o <<St("respond", None)>>]
                 ELSE Proceed(c, @)]
    /\ UNCHANGED <<store, trajectory, lock>>

\* trajectory_logger.log of the exec event
ExLog(c) ==
    /\ Next_(c, "log")
    /\ trajectory' = Append(trajectory, [event_type |-> "exec",
                                         returncode |-> ex.th[c].rc])
    /\ ex' = [ex EXCEPT !.th[c] = Proceed(c, @)]
    /\ UNCHANGED <<store, lock>>

\* the result is returned and the handler writes the ok response
ExRespond(c) ==
    /\ Next_(c, "respond")
    /\ ex' = [ex EXCEPT !.th[c] = AtRest,
                        !.out[c] = [status |-> "ok", rc |-> ex.th[c].rc,
                                    signal_name |->
                                        IF ex.th[c].rc < 0
                                        THEN decode_signal(ex.th[c].rc)
                                        ELSE None,
                                    ran |-> ex.th[c].ran]]
    /\ UNCHANGED <<store, trajectory, lock>>

\* the exception reaches HarnessHandler.handle, which writes an error
\* response
ExRaise(c) ==
    /\ Next_(c, "raise")
    /\ ex' = [ex EXCEPT !.th[c] = AtRest,
                        !.out[c] = [status |-> "error", ran |-> ex.th[c].ran]]
    /\ UNCHANGED <<store, trajectory, lock>>

\* state_manager.load(): with self._lock
ExStateAcquire(c) ==
    /\ Next_(c, "state_acquire")
    /\ lock = None
    /\ lock' = c
    /\ ex' = [ex EXCEPT !.th[c] = Proceed(c, @)]
    /\ UNCHANGED <<store, trajectory>>

ExStateRelease(c) ==
    /\ Next_(c, "state_release")
    /\ lock' = None
    /\ ex' = [ex EXCEPT !.th[c] = Proceed(c, @)]
    /\ UNCHANGED <<store, trajectory>>

\* trajectory_logger.tail(): with self._lock
ExTailAcquire(c) ==
    /\ Next_(c, "tail_acquire")
    /\ ex.tlock = None
    /\ ex' = [ex EXCEPT !.tlock = c, !.th[c] = Proceed(c, @)]
    /\ UNCHANGED <<store, trajectory, lock>>

ExTailRelease(c) ==
    /\ Next_(c, "tail_release")
    /\ ex' = [ex EXCEPT !.tlock = None, !.th[c] = Proceed(c, @)]
    /\ UNCHANGED <<store, trajectory, lock>>

\* the steps of the thread of connection c
ExStep(c) ==
    \/ ExAcquire(c)
    \/ ExRelease(c)
    \/ ExSpawn(c)
    \/ ExSpawnFail(c)
    \/ \E rc \in ReturnCodes : ExWait(c, rc)
    \/ ExTimeout(c)
    \/ ExCheckAdd(c)
    \/ ExLog(c)
    \/ ExRespond(c)
    \/ ExRaise(c)

ExStatusStep(c) ==
    \/ ExStateAcquire(c)
    \/ ExStateRelease(c)
    \/ ExTailAcquire(c)
    \/ ExTailRelease(c)

\* the git argument lists of the requests
GitArgs == {<<"status">>, <<"-c", "status">>, <<"log", "--exec=a">>}

Requests ==
    {ExecReq(e) : e \in BOOLEAN}
        \cup {GitReq(args, ro) : args \in GitArgs, ro \in BOOLEAN}
        \cup {CommitReq}

NextExec ==
    \/ \E c \in Conns, req \in Requests : Accept(c, req)
    \/ \E c \in Conns : ExStep(c)

SpecExec == InitIO /\ [][NextExec]_vars

\* git arguments around the deny list: each refused option, bare and in its
\* =value form, and arguments that only resemble one
GitTokens ==
    {"-c", "--config", "--upload-pack", "--exec", "--receive-pack", "-u",
     "-c=a", "--config=a", "--upload-pack=a", "--exec=a", "--receive-pack=a",
     "status", "-ca", "--exec-path", "--configure", "-C"}

\* the argument lists of one or two arguments
GitArgsAll ==
    {<<a>> : a \in GitTokens} \cup {<<a, b>> : a \in GitTokens, b \in GitTokens}

\* git requests of every shape on one connection, beside the git request
\* of _handle_git (never read-only) on the other
NextGit ==
    \/ \E args \in GitArgsAll, ro \in BOOLEAN : Accept("c1", GitReq(args, ro))
    \/ Accept("c2", GitReq(<<"status">>, FALSE))
    \/ \E c \in Conns :
        \/ ExAcquire(c)
        \/ ExRelease(c)
        \/ ExSpawn(c)
        \/ \E rc \in ReturnCodes : ExWait(c, rc)
        \/ ExTimeout(c)
        \/ ExRespond(c)
        \/ ExRaise(c)

SpecGit == InitIO /\ [][NextGit]_vars

\* _handle_get_state: state_manager.load() under the state lock
LockedGetState ==
    /\ lock = None
    /\ GetState

\* the connection that sends task_claim and task_complete
MixWorkers == {"w1"}

\* the requests that meet the task handlers
MixRequests == {ExecReq(TRUE), StatusReq, PingReq}

\* the events of one run of the mixed handlers
MaxMixLog == 3

\* room for the event a new handler will log
MixRoom == Len(trajectory) + InFlight + ExecInFlight < MaxMixLog

\* the chain plan: t2 depends on t1
InitMix ==
    /\ InitIO
    /\ DOMAIN tasks = LiveIds
    /\ tasks["t2"].dependencies = {"t1"}

\* the handlers of task_claim and task_complete, step by step, beside
\* get_state and the threads of exec, status and ping requests
NextMix ==
    \/ \E w \in MixWorkers :
        \/ MixRoom /\ IOClaim(w)
        \/ \E t \in StoreIds : MixRoom /\ IOComplete(w, t)
        \/ IOOpenWrite(w)
        \/ IOFsync(w)
        \/ IORename(w)
        \/ IOCommit(w)
        \/ IOUnlock(w)
        \/ IOLog(w)
        \/ IORespond(w)
        \/ IOWriteFail(w)
    \/ LockedGetState
    \/ \E c \in Conns, req \in MixRequests :
        /\ req.kind = "exec" => MixRoom
        /\ Accept(c, req)
    \/ \E c \in Conns :
        \/ ExAcquire(c)
        \/ ExRelease(c)
        \/ ExSpawn(c)
        \/ \E rc \in ReturnCodes : ExWait(c, rc)
        \/ ExTimeout(c)
        \/ ExLog(c)
        \/ ExRespond(c)
        \/ ExStatusStep(c)

SpecMix == InitMix /\ [][NextMix]_vars

----------------------------------------------------------------------------
(* The daemon process: HarnessDaemon.__init__ with _acquire_lock,          *)
(* run_daemon, _handle_shutdown and HarnessDaemon.server_close.  Several   *)
(* processes are started against the same socket path.  dm.path is the     *)
(* inode the lock path names (an inode is called after the process that    *)
(* created it), dm.flock[i] the process holding the flock on inode i,      *)
(* dm.sock the process whose socket file the socket path names.            *)

\* the variables a daemon's start and stop leave alone
rest == <<tasks, pending_deque, pending_set, worker_index, disk, now,
          trajectory, reply, response, tmp, lock, pc, dc, ex, fn>>

\* no process has been started; neither file exists; the plan of the
\* worktree has the single task t1
NoDaemon ==
    [path |-> None, flock |-> [i \in Daemons |-> None], sock |-> None,
     pr |-> [d \in Daemons |-> Down]]

InitDaemon ==
    /\ tasks \in {p \in ClientPlans : validate_dag(p) /\ DOMAIN p = {"t1"}}
    /\ pending_deque = rebuild_indexes(tasks).pending_deque
    /\ pending_set = rebuild_indexes(tasks).pending_set
    /\ worker_index = rebuild_indexes(tasks).worker_index
    /\ disk = tasks
    /\ now = 0
    /\ trajectory = <<>>
    /\ reply = [w \in Workers |-> Idle]
    /\ response = "nothing"
    /\ tmp = Absent
    /\ lock = None
    /\ pc = [w \in Workers |-> AtRest]
    /\ dc = NotRunning
    /\ ex = Quiet
    /\ dm = NoDaemon
    /\ fn = NotCalled

Proc(d) == dm.pr[d]

\* the process is running
Alive(d) == Proc(d).at \notin {"down", "failed", "crashed", "exited"}

\* the flocks the kernel drops when process d ends: the one on its open
\* lock file
Dropped(d) ==
    [i \in Daemons |-> IF dm.flock[i] = d THEN None ELSE dm.flock[i]]

\* the process ends with an uncaught exception: exit code 1, nothing is
\* cleaned up, its handler threads die with it
Crash(d) ==
    [Proc(d) EXCEPT !.at = "crashed", !.listening = FALSE, !.code = <<1>>,
                 !.st = FALSE,
                 !.hs = IF @ \in {"started", "spawned"} THEN "killed" ELSE @]

\* run_daemon is started in a new process
DStart(d) ==
    /\ Proc(d).at = "down"
    /\ dm' = [dm EXCEPT !.pr[d].at = "open_lock"]
    /\ UNCHANGED rest

\* _acquire_lock: lock_path.open("w") opens the file the path names and
\* creates it when the path names none
DOpenLock(d) ==
    /\ Proc(d).at = "open_lock"
    /\ LET i == IF dm.path = None THEN d ELSE dm.path
       IN dm' = [dm EXCEPT !.path = i, !.pr[d].fd = i, !.pr[d].at = "flock"]
    /\ UNCHANGED rest

\* _acquire_lock: flock(LOCK_EX | LOCK_NB); on BlockingIOError the file is
\* closed and RuntimeError ends the process
DFlock(d) ==
    /\ Proc(d).at = "flock"
    /\ IF dm.flock[Proc(d).fd] = None
       THEN dm' = [dm EXCEPT !.flock[Proc(d).fd] = d,
                             !.pr[d].at = "sock_exists"]
       ELSE dm' = [dm EXCEPT !.pr[d] =
                      [@ EXCEPT !.at = "failed", !.fd = None, !.code = <<1>>,
                                !.err = "Another daemon is already running"]]
    /\ UNCHANGED rest

\* __init__: if Path(socket_path).exists()
DSockExists(d) ==
    /\ Proc(d).at = "sock_exists"
    /\ dm' = [dm EXCEPT !.pr[d].at =
                 IF dm.sock # None THEN "sock_unlink" ELSE "bind"]
    /\ UNCHANGED rest

\* __init__: Path(socket_path).unlink(); FileNotFoundError when the file
\* has gone since the test
DSockUnlink(d) ==
    /\ Proc(d).at = "sock_unlink"
    /\ IF dm.sock # None
       THEN dm' = [dm EXCEPT !.sock = None, !.pr[d].at = "bind"]
       ELSE dm' = [dm EXCEPT !.flock = Dropped(d), !.pr[d] = Crash(d)]
    /\ UNCHANGED rest

\* __init__: the socket is bound and listens, the state is loaded, and
\* run_daemon installs the signal handlers and enters serve_forever; when
\* the path is taken bind raises OSError and TCPServer.__init__ calls
\* server_close before it re-raises
DBind(d) ==
    /\ Proc(d).at = "bind"
    /\ IF dm.sock = None
       THEN dm' = [dm EXCEPT !.sock = d, !.pr[d].listening = TRUE,
                             !.pr[d].at = "serve"]
       ELSE dm' = [dm EXCEPT !.pr[d].exc = TRUE, !.pr[d].at = "sc_exists"]
    /\ UNCHANGED rest

\* a client connects to the socket path and sends shutdown: the server
\* accepts and starts the handler thread
DShutdownCommand(d) ==
    /\ Proc(d).at = "serve"
    /\ dm.sock = d
    /\ Proc(d).hs = "none"
    /\ dm' = [dm EXCEPT !.pr[d].hs = "started"]
    /\ UNCHANGED rest

\* _handle_shutdown: threading.Thread(target=server.shutdown).start()
DHandlerSpawn(d) ==
    /\ Alive(d)
    /\ Proc(d).hs = "started"
    /\ dm' = [dm EXCEPT !.pr[d].hs = "spawned", !.pr[d].st = TRUE]
    /\ UNCHANGED rest

\* _handle_shutdown returns Ok and handle() writes the response
DHandlerRespond(d) ==
    /\ Alive(d)
    /\ Proc(d).hs = "spawned"
    /\ dm' = [dm EXCEPT !.pr[d].hs = "responded"]
    /\ UNCHANGED rest

\* SIGTERM or SIGINT reaches the process once run_daemon has installed
\* handle_sigterm, which starts a thread running daemon.shutdown
DSignal(d) ==
    /\ Alive(d)
    /\ Proc(d).at \notin {"open_lock", "flock", "sock_exists", "sock_unlink",
                       "bind"}
    /\ ~Proc(d).exc
    /\ ~Proc(d).st /\ ~Proc(d).stop
    /\ dm' = [dm EXCEPT !.pr[d].st = TRUE]
    /\ UNCHANGED rest

\* BaseServer.shutdown on its thread: the shutdown request flag is set
DShutdownThread(d) ==
    /\ Alive(d)
    /\ Proc(d).st
    /\ dm' = [dm EXCEPT !.pr[d].st = FALSE, !.pr[d].stop = TRUE]
    /\ UNCHANGED rest

\* serve_forever sees the shutdown request and returns; the finally clause
\* of run_daemon enters server_close, whose first act closes the listening
\* socket
DServeExit(d) ==
    /\ Proc(d).at = "serve"
    /\ Proc(d).stop
    /\ dm' = [dm EXCEPT !.pr[d].listening = FALSE, !.pr[d].at = "sc_exists"]
    /\ UNCHANGED rest

\* server_close: if socket_path.exists()
DCloseSockExists(d) ==
    /\ Proc(d).at = "sc_exists"
    /\ dm' = [dm EXCEPT !.pr[d].at =
                 IF dm.sock # None THEN "sc_unlink" ELSE "unlock"]
    /\ UNCHANGED rest

\* server_close: socket_path.unlink()
DCloseSockUnlink(d) ==
    /\ Proc(d).at = "sc_unlink"
    /\ IF dm.sock # None
       THEN dm' = [dm EXCEPT !.sock = None, !.pr[d].at = "unlock"]
       ELSE dm' = [dm EXCEPT !.flock = Dropped(d), !.pr[d] = Crash(d)]
    /\ UNCHANGED rest

\* server_close: flock(LOCK_UN) and close of the lock file
DUnlock(d) ==
    /\ Proc(d).at = "unlock"
    /\ dm' = [dm EXCEPT !.flock = Dropped(d), !.pr[d].fd = None,
                        !.pr[d].at = "unlink_lock"]
    /\ UNCHANGED rest

\* server_close: lock_path.unlink(missing_ok=True)
DUnlinkLock(d) ==
    /\ Proc(d).at = "unlink_lock"
    /\ dm' = [dm EXCEPT !.path = None, !.pr[d].at = "exit"]
    /\ UNCHANGED rest

\* sys.exit(0) at the end of run_daemon, or the exception of a failed bind
\* re-raised: the process ends and its daemon threads with it
DExit(d) ==
    /\ Proc(d).at = "exit"
    /\ dm' = [dm EXCEPT !.pr[d] =
                 [@ EXCEPT !.at = IF Proc(d).exc THEN "crashed" ELSE "exited",
                           !.code = IF Proc(d).exc THEN <<1>> ELSE <<0>>,
                           !.st = FALSE,
                           !.hs = IF @ \in {"started", "spawned"}
                                  THEN "killed" ELSE @]]
    /\ UNCHANGED rest

\* the steps a started process takes by itself
DStep(d) ==
    \/ DOpenLock(d)
    \/ DFlock(d)
    \/ DSockExists(d)
    \/ DSockUnlink(d)
    \/ DBind(d)
    \/ DHandlerSpawn(d)
    \/ DHandlerRespond(d)
    \/ DShutdownThread(d)
    \/ DServeExit(d)
    \/ DCloseSockExists(d)
    \/ DCloseSockUnlink(d)
    \/ DUnlock(d)
    \/ DUnlinkLock(d)
    \/ DExit(d)

NextDaemon ==
    \E d \in Daemons :
        \/ DStart(d)
        \/ DShutdownCommand(d)
        \/ DSignal(d)
        \/ DStep(d)

SpecDaemon == InitDaemon /\ [][NextDaemon]_vars

----------------------------------------------------------------------------
(* HarnessHandler.handle and dispatch, statement by statement, on the      *)
(* handler threads of daemon d1.  ex.th[c] holds the locals of the thread  *)
(* of connection c and the bytes its client sent, ex.out[c] the response   *)
(* lines the client has received.  The threads are daemon threads: they    *)
(* run only while the process is alive.                                     *)

\* what a client writes before it waits for the response: nothing at all
\* (it closes its end), a bare newline, or one line
SentChoices ==
    {"", "\n", "not json\n",
     "{\"not_command\":\"value\"}\n",
     "{\"command\":\"unknown_cmd\"}\n",
     "{\"command\":\"task_claim\"}\n",
     "{\"command\":\"ping\"}\n",
     "{\"command\":\"get_state\"}\n",
     "{\"command\":\"shutdown\"}\n"}

\* the tags of the Request union, and those whose struct has no required
\* field
RequestTags ==
    {"get_state", "status", "update_state", "git", "ping", "shutdown",
     "task_claim", "task_complete", "exec", "plan_import", "plan_reset"}

NoRequiredField == {"get_state", "status", "git", "ping", "shutdown",
                    "plan_reset"}

\* rfile.readline(): the bytes up to and including the first newline, or
\* all of them when the client closed without one
readline(sent) ==
    IF count(sent, "\n") = 0 THEN sent ELSE split(sent, "\n")[1] \o "\n"

Err(message) == [status |-> "error", message |-> message]

Ok(data) == [status |-> "ok", data |-> data]

\* msgspec.json.decode(raw, type=Request) for an object with at most the
\* command field: DecodeError for bytes that are no JSON document,
\* ValidationError for an object without the tag field, with a tag outside
\* the union or without a required field
decode(raw) ==
    LET tag_field == "{\"command\":\""
        tag == SubSeq(raw, Len(tag_field) + 1, Len(raw) - 2)
    IN IF raw = "" THEN [error |-> "Input data was truncated"]
       ELSE IF Byte(raw, 1) # "{" \/ Byte(raw, Len(raw)) # "}"
            THEN [error |-> "JSON is malformed"]
       ELSE IF ~startswith(raw, tag_field)
            THEN [error |-> "Object missing required field command"]
       ELSE IF tag \notin RequestTags THEN [error |-> "Invalid value"]
       ELSE IF tag \notin NoRequiredField
            THEN [error |-> "Object missing required field"]
       ELSE [request |-> tag]

\* the locals of a handler thread
Handling(at, sent, line, request, response_bytes) ==
    [at |-> at, sent |-> sent, line |-> line, request |-> request,
     response |-> response_bytes]

\* the variables the handler threads leave alone
outside == <<tasks, pending_deque, pending_set, worker_index, disk, now,
             trajectory, reply, response, tmp, lock, pc, dc, fn>>

\* daemon d1 serves and no connection is open
InitConn ==
    /\ tasks \in {p \in ClientPlans : validate_dag(p) /\ DOMAIN p = {"t1"}}
    /\ pending_deque = rebuild_indexes(tasks).pending_deque
    /\ pending_set = rebuild_indexes(tasks).pending_set
    /\ worker_index = rebuild_indexes(tasks).worker_index
    /\ disk = tasks
    /\ now = 0
    /\ trajectory = <<>>
    /\ reply = [w \in Workers |-> Idle]
    /\ response = "nothing"
    /\ tmp = Absent
    /\ lock = None
    /\ pc = [w \in Workers |-> AtRest]
    /\ dc = NotRunning
    /\ ex = [Quiet EXCEPT !.out = [c \in Conns |-> <<>>]]
    /\ dm = OneDaemon
    /\ fn = NotCalled

\* the thread of connection c is at the given statement of a running
\* process
Thread(c, at) == Alive("d1") /\ ex.th[c].at = at

\* a client connects and writes; serve_forever accepts the connection and
\* starts its handler thread
Connect(c, sent) ==
    /\ Proc("d1").at = "serve"
    /\ ex.th[c].at \in {"idle", "closed"}
    /\ ex' = [ex EXCEPT !.th[c] = Handling("readline", sent, None, None, NoOutcome),
                        !.out[c] = <<>>]
    /\ UNCHANGED <<outside, dm>>

\* line = self.rfile.readline(); if not line: return
HandleReadline(c) ==
    /\ Thread(c, "readline")
    /\ LET line == readline(ex.th[c].sent)
       IN ex' = [ex EXCEPT !.th[c] =
                    [@ EXCEPT !.line = line,
                              !.at = IF line = "" THEN "closed" ELSE "decode"]]
    /\ UNCHANGED <<outside, dm>>

\* dispatch(line.strip()): the request is decoded; a request that does not
\* decode is answered with Err
HandleDecode(c) ==
    /\ Thread(c, "decode")
    /\ LET got == decode(strip(ex.th[c].line))
       IN ex' = [ex EXCEPT !.th[c] =
                    IF "error" \in DOMAIN got
                    THEN [@ EXCEPT !.at = "write",
                                   !.response =
                                       Err("Invalid request: " \o got.error)]
                    ELSE [@ EXCEPT !.at = "handler",
                                   !.request = got.request]]
    /\ UNCHANGED <<outside, dm>>

\* the handler of the request: _handle_shutdown starts the thread that
\* stops the server, _handle_get_state lets the exceptions of
\* StateManager.load through; the others return a result
HandleRequest(c, raised) ==
    /\ Thread(c, "handler")
    /\ raised => ex.th[c].request = "get_state"
    /\ ex' = [ex EXCEPT !.th[c] =
                 IF raised
                 THEN [@ EXCEPT !.at = "except"]
                 ELSE [@ EXCEPT !.at = "write",
                                !.response = Ok(ex.th[c].request)]]
    /\ dm' = IF ex.th[c].request = "shutdown"
             THEN [dm EXCEPT !.pr["d1"].st = TRUE]
             ELSE dm
    /\ UNCHANGED outside

\* self.wfile.write(response_bytes + b"\n"); handle returns and the
\* connection is closed
HandleWrite(c) ==
    /\ Thread(c, "write")
    /\ ex' = [ex EXCEPT !.th[c].at = "closed",
                        !.out[c] = Append(@, ex.th[c].response)]
    /\ UNCHANGED <<outside, dm>>

\* except Exception as e: the error response is written
HandleExcept(c) ==
    /\ Thread(c, "except")
    /\ ex' = [ex EXCEPT !.th[c].at = "closed",
                        !.out[c] = Append(@, Err("exception"))]
    /\ UNCHANGED <<outside, dm>>

\* the steps of the handler thread of connection c
HandleStep(c) ==
    \/ HandleReadline(c)
    \/ HandleDecode(c)
    \/ \E raised \in BOOLEAN : HandleRequest(c, raised)
    \/ HandleWrite(c)
    \/ HandleExcept(c)

NextConn ==
    \/ \E c \in Conns, sent \in SentChoices : Connect(c, sent)
    \/ \E c \in Conns : HandleStep(c)
    \/ DSignal("d1")
    \/ DShutdownThread("d1")
    \/ DServeExit("d1")
    \/ DCloseSockExists("d1")
    \/ DCloseSockUnlink("d1")
    \/ DUnlock("d1")
    \/ DUnlinkLock("d1")
    \/ DExit("d1")

SpecConn == InitConn /\ [][NextConn]_vars

----------------------------------------------------------------------------
(* The gate hooks of the client: _cmd_check_state and _cmd_check_commit    *)
(* with send_rpc, statement by statement.  fn holds the locals of the one  *)
(* hook process; dm.sock is the socket file, and a daemon that listens     *)
(* answers.                                                                 *)

max_retries == 1

Hooks == {"check-state", "check-commit"}

\* the variables a hook and the daemon's coming and going leave alone
world == <<tasks, pending_deque, pending_set, worker_index, disk, now,
           trajectory, reply, response, tmp, lock, pc, dc, ex>>

\* the exceptions of a connection the hooks catch
Caught == {"FileNotFoundError", "ConnectionRefusedError"}

\* d.get(key, default)
get(d, key, default) == IF key \in DOMAIN d THEN d[key] ELSE default

\* the locals of a hook process: the command, the send_rpc call it is in
\* and that call's attempt, the exception on its way up, the data of the
\* get_state response, and what the process has printed and exited with
HookLocals(at, cmd, call, attempt, exc, data, out, code) ==
    [at |-> at, cmd |-> cmd, call |-> call, attempt |-> attempt,
     exc |-> exc, data |-> data, out |-> out, code |-> code]

\* a daemon serves, or none runs and no socket file exists; the state file
\* holds a plan
InitHook ==
    /\ tasks \in {p \in ClientPlans : validate_dag(p)}
    /\ pending_deque = rebuild_indexes(tasks).pending_deque
    /\ pending_set = rebuild_indexes(tasks).pending_set
    /\ worker_index = rebuild_indexes(tasks).worker_index
    /\ disk = tasks
    /\ now = 0
    /\ trajectory = <<>>
    /\ reply = [w \in Workers |-> Idle]
    /\ response = "nothing"
    /\ tmp = Absent
    /\ lock = None
    /\ pc = [w \in Workers |-> AtRest]
    /\ dc = NotRunning
    /\ ex = Quiet
    /\ dm \in {OneDaemon, NoDaemon}
    /\ fn = NotCalled

\* the daemon is killed: its socket file stays behind
DaemonKilled ==
    /\ fn.at # "exit"
    /\ Alive("d1")
    /\ dm' = [dm EXCEPT !.flock = Dropped("d1"), !.pr["d1"] = Crash("d1")]
    /\ UNCHANGED <<world, fn>>

\* the daemon is stopped and has removed its files
DaemonStopped ==
    /\ fn.at # "exit"
    /\ Alive("d1")
    /\ dm' = NoDaemon
    /\ UNCHANGED <<world, fn>>

\* the hook is run
HookStart(cmd) ==
    /\ fn.at \in {"idle", "exit"}
    /\ fn' = HookLocals("connect", cmd, 1, 0, None, [state |-> None], <<>>,
                        <<>>)
    /\ UNCHANGED <<world, dm>>

\* send_rpc: sock.connect(socket_path) and the request is sent; connect
\* raises FileNotFoundError without a socket file and
\* ConnectionRefusedError when nobody listens on it
HookConnect ==
    /\ fn.at = "connect"
    /\ fn' = IF dm.sock = None
             THEN [fn EXCEPT !.at = "except", !.exc = "FileNotFoundError"]
             ELSE IF ~Proc(dm.sock).listening
             THEN [fn EXCEPT !.at = "except", !.exc = "ConnectionRefusedError"]
             ELSE [fn EXCEPT !.at = "recv"]
    /\ UNCHANGED <<world, dm>>

\* send_rpc: except (FileNotFoundError, ConnectionRefusedError): the daemon
\* is spawned before the second attempt, and the exception of the last
\* attempt is raised
HookExcept ==
    /\ fn.at = "except"
    /\ fn' = IF fn.attempt < max_retries
             THEN [fn EXCEPT !.at = "spawn", !.exc = None]
             ELSE [fn EXCEPT !.at = "raised"]
    /\ UNCHANGED <<world, dm>>

\* spawn_daemon: the daemon is forked and either serves its socket within
\* the timeout or RuntimeError is raised (the fork failed, the daemon
\* crashed on startup, no socket appeared in time)
HookSpawn(started) ==
    /\ fn.at = "spawn"
    /\ IF started
       THEN /\ dm' = OneDaemon
            /\ fn' = [fn EXCEPT !.at = "connect", !.attempt = @ + 1]
       ELSE /\ dm' = dm
            /\ fn' = [fn EXCEPT !.at = "raised", !.exc = "RuntimeError"]
    /\ UNCHANGED world

\* send_rpc: the response is read and decoded; a connection the daemon
\* dropped yields no bytes, which json.loads rejects
HookRecv(git_ok) ==
    /\ fn.at = "recv"
    /\ fn' = IF dm.sock = None \/ ~Proc(dm.sock).listening
             THEN [fn EXCEPT !.at = "raised", !.exc = "JSONDecodeError"]
             ELSE IF fn.call = 1
             THEN [fn EXCEPT !.at = "state", !.data = [state |-> disk]]
             ELSE [fn EXCEPT !.at = "head",
                             !.exc = IF git_ok THEN None ELSE "git"]
    /\ UNCHANGED <<world, dm>>

\* an exception leaves send_rpc: the first call of either hook is inside
\* try ... except (FileNotFoundError, ConnectionRefusedError), which prints
\* allow and returns; anything else ends the process with a traceback
HookRaised ==
    /\ fn.at = "raised"
    /\ fn' = IF fn.call = 1 /\ fn.exc \in Caught
             THEN [fn EXCEPT !.at = "exit", !.out = <<"allow">>,
                             !.code = <<0>>]
             ELSE [fn EXCEPT !.at = "exit", !.out = <<"Traceback">>,
                             !.code = <<1>>]
    /\ UNCHANGED <<world, dm>>

\* the get_state response has come: check-state counts the completed tasks
\* of data.get("tasks", {}), check-commit goes on to ask for HEAD
HookState ==
    /\ fn.at = "state"
    /\ LET tasks_ == get(fn.data, "tasks", <<>>)
           total_tasks == Cardinality(DOMAIN tasks_)
           completed_tasks ==
               Cardinality({t \in DOMAIN tasks_ :
                                get(tasks_[t], "status", None) = COMPLETED})
       IN fn' = IF fn.cmd = "check-commit"
                THEN [fn EXCEPT !.at = "connect", !.call = 2, !.attempt = 0]
                ELSE IF DOMAIN tasks_ = {}
                THEN [fn EXCEPT !.at = "exit", !.out = <<"allow">>,
                                !.code = <<0>>]
                ELSE IF completed_tasks < total_tasks
                THEN [fn EXCEPT !.at = "exit", !.out = <<"deny">>,
                                !.code = <<1>>]
                ELSE [fn EXCEPT !.at = "exit", !.out = <<"allow">>,
                                !.code = <<0>>]
    /\ UNCHANGED <<world, dm>>

\* check-commit with the git response: allow unless git succeeded and HEAD
\* is the commit state.get("last_commit") names
HookHead(same) ==
    /\ fn.at = "head"
    /\ LET last_commit == get(fn.data, "last_commit", None)
       IN fn' = IF fn.exc = "git"
                THEN [fn EXCEPT !.at = "exit", !.out = <<"allow">>,
                                !.code = <<0>>, !.exc = None]
                ELSE IF last_commit # None /\ same
                THEN [fn EXCEPT !.at = "exit", !.out = <<"deny">>,
                                !.code = <<1>>]
                ELSE [fn EXCEPT !.at = "exit", !.out = <<"allow">>,
                                !.code = <<0>>]
    /\ UNCHANGED <<world, dm>>

HookStep ==
    \/ HookConnect
    \/ HookExcept
    \/ \E started \in BOOLEAN : HookSpawn(started)
    \/ \E git_ok \in BOOLEAN : HookRecv(git_ok)
    \/ HookRaised
    \/ HookState
    \/ \E same \in BOOLEAN : HookHead(same)

NextHook ==
    \/ \E cmd \in Hooks : HookStart(cmd)
    \/ HookStep
    \/ DaemonKilled
    \/ DaemonStopped

SpecHook == InitHook /\ [][NextHook]_vars

----------------------------------------------------------------------------
(* Notions shared by the properties *)

\* worker w was handed a task by its last ok response, has not completed it
\* since, and the timeout of that grant has not expired
GrantLive(w) ==
    /\ reply[w].kind = "claim"
    /\ now - reply[w].started_at <= tasks[reply[w].task].timeout_seconds

\* the step appends a task_claim event, i.e. a claim_task returned a task
ClaimReturned(w, t) ==
    /\ Len(trajectory') = Len(trajectory) + 1
    /\ trajectory'[Len(trajectory')].event_type = "task_claim"
    /\ trajectory'[Len(trajectory')].worker_id = w
    /\ trajectory'[Len(trajectory')].task_id = t

----------------------------------------------------------------------------
(* C1: no task is held by two workers.  Two different workers never both   *)
(* hold a grant of the same task whose timeout has not expired, a worker   *)
(* with such a grant is the task's recorded owner, and the cache and the   *)
(* state file never disagree on who owns a RUNNING task.                   *)

C1_NoDoubleHold ==
    /\ \A w1, w2 \in Workers :
          (w1 # w2 /\ GrantLive(w1) /\ GrantLive(w2))
              => reply[w1].task # reply[w2].task
    /\ \A w \in Workers :
          GrantLive(w) =>
              /\ tasks[reply[w].task].status = RUNNING
              /\ tasks[reply[w].task].claimed_by = w
    /\ \A t \in DOMAIN tasks :
          /\ disk[t].status = tasks[t].status
          /\ disk[t].claimed_by = tasks[t].claimed_by

\* two workers were handed the same task, the earlier grant having expired
C1_Witness ==
    \E w1, w2 \in Workers :
        /\ w1 # w2
        /\ reply[w1].kind = "claim" /\ reply[w2].kind = "claim"
        /\ reply[w1].task = reply[w2].task
        /\ GrantLive(w2)

----------------------------------------------------------------------------
DepsCompleted(ts, t) == \A d \in ts[t].dependencies : ts[d].status = COMPLETED

(* C2: a RUNNING or COMPLETED task has only COMPLETED dependencies, and a  *)
(* claim_task returns a task only when all its dependencies are COMPLETED. *)

C2_DepsCompleted ==
    /\ [](\A t \in DOMAIN tasks :
            tasks[t].status \in {RUNNING, COMPLETED} => DepsCompleted(tasks, t))
    /\ [][\A w \in Workers, t \in DOMAIN tasks :
            ClaimReturned(w, t) => DepsCompleted(tasks, t)]_vars

\* a task with a dependency has been claimed
C2_Witness ==
    \E t \in DOMAIN tasks :
        /\ tasks[t].status = RUNNING
        /\ tasks[t].dependencies # {}

----------------------------------------------------------------------------
(* C3: complete_task by a worker that is not the task's claimed_by fails   *)
(* with the ownership error and changes nothing: the cached tasks, the     *)
(* state file and the trajectory are the same after the call.              *)

C3_WrongOwnerRejected ==
    [][\A w \in Workers, t \in DOMAIN tasks :
          (tasks[t].claimed_by # w /\ TaskComplete(w, t))
              => /\ response' = "not_owned"
                 /\ tasks' = tasks
                 /\ disk' = disk
                 /\ trajectory' = trajectory]_vars

\* every task has an owner and the last handler answered "not owned": the
\* rejected complete_task was aimed at a task claimed by another worker
C3_Witness ==
    /\ response = "not_owned"
    /\ \A t \in DOMAIN tasks : tasks[t].claimed_by # None
    /\ \E t \in DOMAIN tasks : tasks[t].status = RUNNING

----------------------------------------------------------------------------
(* C4: a worker that claims again, with no complete_task of its own and no *)
(* timeout since its last claim, is answered with the same task id and     *)
(* is_retry = true, and the task's started_at does not decrease.           *)

C4_IdempotentClaim ==
    [][\A w \in Workers :
          (GrantLive(w) /\ TaskClaim(w))
              => /\ response' = "ok"
                 /\ reply'[w].kind = "claim"
                 /\ reply'[w].task = reply[w].task
                 /\ reply'[w].is_retry
                 /\ reply'[w].started_at >= reply[w].started_at
                 /\ tasks'[reply[w].task].started_at
                        >= tasks[reply[w].task].started_at]_vars

\* a worker was answered a retry of its task at a later time than its claim
C4_Witness ==
    \E w \in Workers :
        /\ reply[w].kind = "claim"
        /\ reply[w].is_retry
        /\ reply[w].started_at > 0

----------------------------------------------------------------------------
(* Preconditions of a reclaim *)

TimedOut(t) ==
    /\ tasks[t].status = RUNNING
    /\ now - tasks[t].started_at > tasks[t].timeout_seconds

NoPendingClaimable ==
    \A u \in DOMAIN tasks :
        tasks[u].status = PENDING => ~DepsCompleted(tasks, u)

HoldsNothing(w) ==
    \A u \in DOMAIN tasks :
        ~(tasks[u].status = RUNNING /\ tasks[u].claimed_by = w)

\* what the claim says a reclaim of t from w1 by w2 does
ReclaimedBy(t, w1, w2) ==
    /\ ClaimReturned(w2, t)
    /\ response' = "ok"
    /\ reply'[w2].task = t
    /\ reply'[w2].is_reclaim
    /\ ~reply'[w2].is_retry
    /\ tasks'[t].status = RUNNING
    /\ tasks'[t].claimed_by = w2
    /\ tasks'[t].started_at = now
    /\ reply'[w2].started_at = now
    /\ tasks'[t].claimed_by # w1      \* complete_task(t, w1) is now rejected
    /\ worker_index'[w1] = None
    /\ worker_index'[w2] = t

----------------------------------------------------------------------------
FirstTimedOut(t) ==
    /\ TimedOut(t)
    /\ \A u \in DOMAIN tasks : TimedOut(u) => Pos(t) <= Pos(u)

(* C5 as stated: whenever t is RUNNING under w1 and timed out, no PENDING  *)
(* task is claimable and w2 holds no RUNNING task, claim_task(w2) returns  *)
(* t as a reclaim, t is owned by w2 from then on and w1 has no index entry.*)

C5_AnyTimedOutTaskReclaimed ==
    [][\A w1, w2 \in Workers, t \in DOMAIN tasks :
          (/\ w1 # w2
           /\ TimedOut(t) /\ tasks[t].claimed_by = w1
           /\ NoPendingClaimable
           /\ HoldsNothing(w2)
           /\ TaskClaim(w2))
              => ReclaimedBy(t, w1, w2)]_vars

(* C5 amended: the same, for the timed-out RUNNING task that comes first   *)
(* in the order of the tasks mapping; a later timed-out task is not        *)
(* returned by this call and stays with its owner.                         *)

C5_FirstTimedOutTaskReclaimed ==
    [][\A w1, w2 \in Workers, t \in DOMAIN tasks :
          (/\ w1 # w2
           /\ TimedOut(t) /\ tasks[t].claimed_by = w1
           /\ NoPendingClaimable
           /\ HoldsNothing(w2)
           /\ TaskClaim(w2))
              => IF FirstTimedOut(t)
                 THEN ReclaimedBy(t, w1, w2)
                 ELSE /\ tasks'[t] = tasks[t]
                      /\ \E u \in DOMAIN tasks :
                            FirstTimedOut(u) /\ ClaimReturned(w2, u)]_vars

\* a task was reclaimed and its former owner's last grant is that task
C5_Witness ==
    \E w1, w2 \in Workers :
        /\ w1 # w2
        /\ reply[w2].kind = "claim" /\ reply[w2].is_reclaim
        /\ reply[w1].kind = "claim" /\ reply[w1].task = reply[w2].task
        /\ tasks[reply[w2].task].claimed_by = w2
        /\ worker_index[w1] = None

----------------------------------------------------------------------------
LeaseLive(ts, t) ==
    /\ ts[t].status = RUNNING
    /\ now - ts[t].started_at <= ts[t].timeout_seconds

(* C6: a RUNNING task whose lease has not expired (now - started_at <=     *)
(* timeout_seconds) keeps its owner across every step, in the cache and in *)
(* the state file, and every claim_task of the owner sets started_at to    *)
(* the current time, so the lease runs a full timeout from the last claim. *)

C6_LeaseNotPreempted ==
    [][/\ \A t \in DOMAIN tasks :
             /\ LeaseLive(tasks, t) => tasks'[t].claimed_by = tasks[t].claimed_by
             /\ LeaseLive(disk, t) => disk'[t].claimed_by = disk[t].claimed_by
       /\ \A w \in Workers, t \in DOMAIN tasks :
             (tasks[t].status = RUNNING /\ tasks[t].claimed_by = w /\ TaskClaim(w))
                 => /\ tasks'[t].started_at = now
                    /\ tasks'[t].claimed_by = w
                    /\ LeaseLive(tasks', t)]_vars

\* an owner renewed a lease that had run past its first deadline, and the
\* next claim_task, by another worker, was answered "no task"
C6_Witness ==
    \E w \in Workers :
        /\ reply[w].kind = "claim" /\ reply[w].is_retry
        /\ reply[w].started_at > tasks[reply[w].task].timeout_seconds
        /\ tasks[reply[w].task].claimed_by = w
        /\ response = "no_task"

----------------------------------------------------------------------------
ClaimEvents(t, P(_)) ==
    {i \in 1..Len(trajectory) :
        /\ trajectory[i].event_type = "task_claim"
        /\ trajectory[i].task_id = t
        /\ P(trajectory[i])}

NotRetry(e) == ~e.is_retry

FirstClaim(e) == ~e.is_retry /\ ~e.is_reclaim

(* C7 as stated: over the lifetime of the state at most one ClaimResult    *)
(* with is_retry = false is returned per task.                             *)

C7_OneNonRetryClaimPerTask ==
    \A t \in DOMAIN tasks : Cardinality(ClaimEvents(t, NotRetry)) <= 1

(* C7 amended: at most one ClaimResult with is_retry = false and           *)
(* is_reclaim = false is returned per task; every other result for the     *)
(* task with is_retry = false is a reclaim (is_reclaim = true).            *)

C7_OneFirstClaimPerTask ==
    \A t \in DOMAIN tasks : Cardinality(ClaimEvents(t, FirstClaim)) <= 1

\* a task was returned twice with is_retry = false: a first claim and a reclaim
C7_Witness ==
    \E t \in DOMAIN tasks :
        /\ Cardinality(ClaimEvents(t, FirstClaim)) = 1
        /\ Cardinality(ClaimEvents(t, NotRetry)) = 2

----------------------------------------------------------------------------
Independent == \A t \in DOMAIN tasks : tasks[t].dependencies = {}

NoTimeoutElapsed == \A t \in DOMAIN tasks : now <= tasks[t].timeout_seconds

OnlyClaims ==
    \A i \in 1..Len(trajectory) : trajectory[i].event_type = "task_claim"

Holders == {w \in Workers : reply[w].kind = "claim"}

(* C8: N workers call claim_task once each against M independent PENDING  *)
(* tasks, N >= M, and no timeout elapses.  As long as fewer than M workers *)
(* hold a task, a call by a worker that holds none returns a task no other *)
(* worker holds, with is_retry = false; once M workers hold a task, such a *)
(* call returns no task.  So exactly M calls return a task, the M tasks    *)
(* are pairwise distinct, and the other N - M calls return none.           *)

C8_ExactlyMClaims ==
    /\ []((Independent /\ NoTimeoutElapsed /\ OnlyClaims) =>
            /\ Cardinality(Holders) <= Cardinality(DOMAIN tasks)
            /\ \A w1, w2 \in Holders : w1 # w2 => reply[w1].task # reply[w2].task
            /\ \A t \in DOMAIN tasks :
                  Cardinality(ClaimEvents(t, NotRetry)) <= 1)
    /\ [][\A w \in Workers :
            (/\ Independent /\ NoTimeoutElapsed /\ OnlyClaims
             /\ w \notin Holders
             /\ TaskClaim(w))
                => IF Cardinality(Holders) < Cardinality(DOMAIN tasks)
                   THEN /\ response' = "ok"
                        /\ reply'[w].kind = "claim"
                        /\ ~reply'[w].is_retry
                        /\ \A v \in Holders : reply'[w].task # reply[v].task
                   ELSE /\ response' = "no_task"
                        /\ trajectory' = trajectory
                        /\ reply' = reply
                        /\ tasks' = tasks]_vars

\* two independent tasks, two workers hold one each, a third call got none
C8_Witness ==
    /\ Independent /\ NoTimeoutElapsed /\ OnlyClaims
    /\ Cardinality(DOMAIN tasks) = 2
    /\ Cardinality(Holders) = 2
    /\ Len(trajectory) = 2
    /\ response = "no_task"

----------------------------------------------------------------------------
Done(ts, t) == ts[t].status = COMPLETED /\ ts[t].completed_at # NoTime

(* C9: after a successful complete_task(t, w) the task is COMPLETED with   *)
(* completed_at set, in the cache and in the state file, and it stays so   *)
(* across every later claim_task, complete_task and get_state.             *)

C9_CompletedStaysCompleted ==
    /\ [](\A i \in 1..Len(trajectory) :
            trajectory[i].event_type = "task_complete"
                => /\ Done(tasks, trajectory[i].task_id)
                   /\ Done(disk, trajectory[i].task_id))
    /\ [][\A t \in DOMAIN tasks :
            /\ tasks[t].status = COMPLETED => Done(tasks', t)
            /\ disk[t].status = COMPLETED => Done(disk', t)]_vars

\* a task was completed, and after that another claim_task returned a task
C9_Witness ==
    \E i, j \in 1..Len(trajectory) :
        /\ i < j
        /\ trajectory[i].event_type = "task_complete"
        /\ trajectory[j].event_type = "task_claim"
        /\ Done(tasks, trajectory[i].task_id)

----------------------------------------------------------------------------
LegalTransitions ==
    {<<PENDING, RUNNING>>, <<RUNNING, RUNNING>>,
     <<RUNNING, COMPLETED>>, <<RUNNING, FAILED>>}

(* C10: every change of a task's status follows PENDING -> RUNNING,        *)
(* RUNNING -> RUNNING, RUNNING -> COMPLETED or RUNNING -> FAILED: no task  *)
(* returns to PENDING and no PENDING task becomes COMPLETED directly.      *)

C10_LegalTransitions ==
    [][\A t \in DOMAIN tasks :
          /\ tasks'[t].status # tasks[t].status
                => <<tasks[t].status, tasks'[t].status>> \in LegalTransitions
          /\ disk'[t].status # disk[t].status
                => <<disk[t].status, disk'[t].status>> \in LegalTransitions
          /\ tasks[t].status # PENDING => tasks'[t].status # PENDING]_vars

\* one task has gone PENDING -> RUNNING -> COMPLETED, another is RUNNING
C10_Witness ==
    \E t, u \in DOMAIN tasks :
        /\ tasks[t].status = COMPLETED
        /\ tasks[u].status = RUNNING
        /\ tasks[u].claimed_by = tasks[t].claimed_by

----------------------------------------------------------------------------
RunningOf(ts, w) ==
    {t \in DOMAIN ts : ts[t].status = RUNNING /\ ts[t].claimed_by = w}

(* C11: every worker id is the claimed_by of at most one RUNNING task, in  *)
(* the cache and in the state file, and a claim_task by a worker that      *)
(* holds a RUNNING task leaves the set of tasks it holds as it was.        *)

C11_OneRunningTaskPerWorker ==
    /\ [](\A w \in Workers :
            /\ Cardinality(RunningOf(tasks, w)) <= 1
            /\ Cardinality(RunningOf(disk, w)) <= 1)
    /\ [][\A w \in Workers :
            (RunningOf(tasks, w) # {} /\ TaskClaim(w))
                => RunningOf(tasks', w) = RunningOf(tasks, w)]_vars

\* a worker holding a task claimed again while a PENDING task was claimable
\* and was answered a retry of its own task
C11_Witness ==
    \E w \in Workers :
        /\ reply[w].kind = "claim" /\ reply[w].is_retry
        /\ Cardinality(RunningOf(tasks, w)) = 1
        /\ \E u \in DOMAIN tasks :
              tasks[u].status = PENDING /\ DepsCompleted(tasks, u)

----------------------------------------------------------------------------
FieldsMatchStatus(task) ==
    /\ task.status = RUNNING
          => task.claimed_by # None /\ task.started_at # NoTime
    /\ task.status = COMPLETED => task.completed_at # NoTime
    /\ task.status = PENDING
          => task.claimed_by = None /\ task.started_at = NoTime

(* C13: in every state reached from an imported plan by claim_task and     *)
(* complete_task calls, a RUNNING task has claimed_by and started_at set,  *)
(* a COMPLETED task has completed_at set, and a PENDING task has neither   *)
(* claimed_by nor started_at; this holds of the cache and of the file.     *)

C13_FieldsMatchStatus ==
    \A t \in DOMAIN tasks :
        FieldsMatchStatus(tasks[t]) /\ FieldsMatchStatus(disk[t])

\* a plan with a PENDING, a RUNNING and a COMPLETED task at the same time
C13_Witness ==
    \E t, u, v \in DOMAIN tasks :
        /\ tasks[t].status = PENDING
        /\ tasks[u].status = RUNNING
        /\ tasks[v].status = COMPLETED

----------------------------------------------------------------------------
\* (I1)-(I5) of the index invariants
IndexInvariants(ts, dq, ps, wi) ==
    /\ SeqToSet(dq) = ps
    /\ \A id \in SeqToSet(dq) : id \in DOMAIN ts /\ ts[id].status = PENDING
    /\ \A t \in DOMAIN ts : ts[t].status = PENDING => t \in SeqToSet(dq)
    /\ \A w \in Workers :
          wi[w] # None => /\ wi[w] \in DOMAIN ts
                          /\ ts[wi[w]].status = RUNNING
                          /\ ts[wi[w]].claimed_by = w
    /\ \A t \in DOMAIN ts :
          (ts[t].status = RUNNING /\ ts[t].claimed_by # None)
              => wi[ts[t].claimed_by] = t

(* C12: after every claim_task, complete_task and update_state the index   *)
(* invariants (I1)-(I5) hold of the cached state.                          *)

C12_IndexInvariants ==
    [][(/\ \/ \E w \in StoreWorkers : StoreClaim(w)
           \/ \E w \in StoreWorkers, t \in StoreIds : StoreComplete(w, t)
           \/ \E ts \in ClientStates : UpdateState(ts)
        /\ tasks' # Absent)
          => IndexInvariants(tasks', pending_deque', pending_set',
                             worker_index')]_vars

----------------------------------------------------------------------------
Succ(graph, n) ==
    IF n \in DOMAIN graph.adj THEN SeqToSet(graph.adj[n]) ELSE {}

NodesOf(graph) ==
    DOMAIN graph.adj \cup UNION {Succ(graph, k) : k \in DOMAIN graph.adj}

\* n lies on a cycle: a walk of one edge or more leads from n back to n
OnCycle(graph, n) ==
    \E k \in 1..Cardinality(NodesOf(graph)) :
        \E p \in [0..k -> NodesOf(graph)] :
            /\ p[0] = n
            /\ p[k] = n
            /\ \A i \in 0..(k - 1) : p[i + 1] \in Succ(graph, p[i])

Acyclic(graph) == \A n \in DOMAIN graph.adj : ~OnCycle(graph, n)

\* all dependency ids refer to existing tasks and the graph is acyclic
DagInvariants(ts) ==
    /\ \A t \in DOMAIN ts : ts[t].dependencies \subseteq DOMAIN ts
    /\ Acyclic(DepGraph(ts))

(* C14: every state the store has persisted satisfies the DAG invariants:  *)
(* the state file never holds a dangling dependency or a cycle.            *)

C14_PersistedStateIsDag == disk # Absent => DagInvariants(disk)

----------------------------------------------------------------------------
\* the errors of save and of plan_import that name the node n as on a cycle
CycleAt(n) ==
    LET err == [kind |-> "cycle", node |-> n, by |-> None]
    IN {DagMessage(err), PlanDagMessage(err)}

\* the errors that name d as a missing dependency of the task t
MissingAt(d, t) ==
    LET err == [kind |-> "missing", node |-> d, by |-> t]
    IN {DagMessage(err), PlanDagMessage(err)}

CycleMessages(ts) ==
    UNION {CycleAt(n) : n \in {m \in DOMAIN ts : OnCycle(DepGraph(ts), m)}}

MissingMessages(ts) ==
    UNION {UNION {MissingAt(d, t) : d \in ts[t].dependencies \ DOMAIN ts}
           : t \in DOMAIN ts}

\* the client's mappings whose dependency graph has a cycle
CyclicStates ==
    UNION {IF Acyclic(DepGraph(ts)) THEN {} ELSE {ts} : ts \in ClientStates}

\* the errors that name a node on a cycle of ts, per mapping
CycleErrors == [ts \in ClientStates |-> CycleMessages(ts)] @@ <<>>

\* the errors that name a missing dependency of ts, per mapping
MissingErrors == [ts \in ClientStates |-> MissingMessages(ts)] @@ <<>>

\* save(ts), or plan_import of the plan ts
Submitted(ts) == Save(ts) \/ (ts \in ClientPlans /\ PlanImport(ts))

StoreUntouched ==
    /\ tasks' = tasks
    /\ disk' = disk
    /\ pending_deque' = pending_deque
    /\ pending_set' = pending_set
    /\ worker_index' = worker_index
    /\ trajectory' = trajectory

(* C15 as stated: save and plan_import of a graph with a cycle fail with   *)
(* an error naming a node on the cycle, and leave the cache and the state  *)
(* file as they were.                                                      *)

C15_CycleRejectedNamingCycleNode ==
    [][\A ts \in CyclicStates :
          Submitted(ts)
              => response' \in CycleErrors[ts] /\ StoreUntouched]_vars

(* C15 amended: save and plan_import of a graph with a cycle fail and      *)
(* leave the cache and the state file as they were.  When every dependency *)
(* id is a task of the graph the error names a node on the cycle;          *)
(* otherwise it is the missing-dependency error and names a dependency id  *)
(* that is no task.                                                        *)

C15_CycleRejected ==
    [][\A ts \in CyclicStates :
          Submitted(ts)
              => /\ IF MissingErrors[ts] = {}
                    THEN response' \in CycleErrors[ts]
                    ELSE response' \in MissingErrors[ts]
                 /\ StoreUntouched]_vars

\* a save or plan_import was rejected for a cycle while the store held a
\* state with a RUNNING task, which is still cached and on disk
C15_Witness ==
    /\ response \in UNION {CycleAt(n) : n \in StoreIds}
    /\ tasks # Absent
    /\ disk = tasks
    /\ \E t \in DOMAIN tasks : tasks[t].status = RUNNING

----------------------------------------------------------------------------
(* C16: on every finite graph, self-loops, disconnected components and     *)
(* edges to nodes that are not keys included, detect_cycle terminates; it  *)
(* returns no node exactly when the graph is acyclic and otherwise returns *)
(* a node that lies on a cycle.                                            *)

C16_DetectCycleCorrect ==
    /\ [](dc.at = "done" =>
            /\ (dc.result = None) <=> Acyclic(dc.graph)
            /\ dc.result # None => OnCycle(dc.graph, dc.result))
    /\ <>(dc.at = "done")

\* a call returned a node that has no self-loop, so its cycle has two nodes
\* or more, on a graph that also has an edge to a node that is not a key
C16_Witness ==
    /\ dc.at = "done"
    /\ dc.result # None
    /\ dc.result \notin Succ(dc.graph, dc.result)
    /\ \E k \in DOMAIN dc.graph.adj : Succ(dc.graph, k) \ DOMAIN dc.graph.adj # {}

----------------------------------------------------------------------------
\* the handler thread that is inside _write_atomic, before the rename
BeforeRename(w) == At(w, "write") \/ At(w, "fsync") \/ At(w, "rename")

\* the handler thread that has renamed the temp file and still holds the lock
AfterRename(w) == Past(w, "rename") /\ lock = w

(* C17: the state file is never partial.  A step changes it only by the    *)
(* rename, to the complete new state of the writer.  A daemon that stops   *)
(* while a write is before its rename loads the previous state on restart, *)
(* one that stops after the rename loads the new state.                    *)

C17_AtomicWrite ==
    /\ [](disk # Partial /\ Loaded(disk) = disk)
    /\ [][/\ \/ disk' = disk
             \/ \E w \in StoreWorkers : At(w, "rename") /\ disk' = pc[w].new
          /\ CrashRestart =>
                /\ disk' = disk
                /\ tasks' = disk
                /\ \A w \in StoreWorkers :
                      /\ BeforeRename(w) => tasks' = tasks
                      /\ AfterRename(w) => tasks' = pc[w].new]_vars

\* a daemon was stopped in the middle of writing the temp file, after an
\* earlier claim had been written: the restarted daemon holds that claim
C17_Witness ==
    /\ response = "started"
    /\ tmp = Partial
    /\ tasks = disk
    /\ \E t \in DOMAIN disk : disk[t].status = RUNNING

----------------------------------------------------------------------------
\* the state file holds the change the response r to worker w reports
Durable(w, r) ==
    IF r.kind = "claim"
    THEN /\ disk[r.task].status = RUNNING
         /\ disk[r.task].claimed_by = w
         /\ disk[r.task].started_at = r.started_at
    ELSE disk[r.task].status = COMPLETED

(* C18: the cache is replaced only when the state file already holds the   *)
(* new state; a failed write leaves cache and file as they were; cache and *)
(* file agree whenever no store operation holds the lock; and when a       *)
(* claim_task or complete_task response is returned its change is in the   *)
(* state file.                                                             *)

C18_DurableBeforeResponse ==
    /\ [](lock = None => tasks = disk)
    /\ [][\A w \in StoreWorkers :
            /\ IOCommit(w) => disk = pc[w].new
            /\ IOWriteFail(w) => tasks' = tasks /\ disk' = disk /\ tasks' = disk'
            /\ IORespond(w) => Durable(w, pc[w].result)]_vars

\* a write failed half way through the temp file after an earlier claim had
\* been written; the error response leaves cache and file at that claim
C18_Witness ==
    /\ response = "error"
    /\ lock = None
    /\ tmp = Partial
    /\ tasks = disk
    /\ \E t \in DOMAIN disk : disk[t].status = RUNNING

----------------------------------------------------------------------------
\* worker w is the recorded owner of the RUNNING task t of ts
Holds(ts, w, t) ==
    t \in DOMAIN ts /\ ts[t].status = RUNNING /\ ts[t].claimed_by = w

(* C19: a daemon started after a stop at any point holds the state of the  *)
(* state file, with indexes that satisfy (I1)-(I5); every RUNNING task has *)
(* the owner it had; a task granted to a worker by a response and not      *)
(* completed since is still RUNNING under that worker; and a claim_task by *)
(* a worker that holds a task returns that task with is_retry = true.      *)

----------------------------------------------------------------------------
\* the change the event reports is in the cache and in the state file
InPlace(ts, e) ==
    IF e.event_type = "task_claim"
    THEN /\ ts[e.task_id].status \in {RUNNING, COMPLETED}
         /\ ts[e.task_id].claimed_by = e.worker_id
    ELSE ts[e.task_id].status = COMPLETED

(* C20: a handler appends its task_claim or task_complete event only after *)
(* the rename and the replacement of the cache, and after it has released  *)
(* the state lock; the change every event of the trajectory reports is in  *)
(* the cache and in the state file.                                        *)

----------------------------------------------------------------------------
\* the task as it was before the call was RUNNING under the worker w
WasRunningUnder(task, w) == task.status = RUNNING /\ task.claimed_by = w

\* the task as it was before the call was RUNNING under another owner and
\* its timeout had expired
WasStale(task, w) ==
    /\ task.status = RUNNING
    /\ task.claimed_by # w
    /\ now - task.started_at > task.timeout_seconds

(* C23: in every ClaimResult that carries a task, is_retry is true exactly *)
(* when the task was RUNNING and owned by the caller before the call,      *)
(* is_reclaim exactly when it was RUNNING under another owner and timed    *)
(* out, both are false exactly when it was PENDING, and never both true.   *)

C23_FlagsMatchPriorState ==
    [][\A w \in Workers, t \in TaskIds :
          ClaimReturned(w, t) =>
              /\ reply'[w].task = t
              /\ reply'[w].is_retry <=> WasRunningUnder(tasks[t], w)
              /\ reply'[w].is_reclaim <=> WasStale(tasks[t], w)
              /\ (~reply'[w].is_retry /\ ~reply'[w].is_reclaim)
                     <=> tasks[t].status = PENDING
              /\ ~(reply'[w].is_retry /\ reply'[w].is_reclaim)]_vars

\* a first claim, a retry and a reclaim have been returned: the last
\* response of one worker has is_retry, that of another has is_reclaim
C23_Witness ==
    /\ \E w \in Workers : reply[w].kind = "claim" /\ reply[w].is_reclaim
    /\ \E w \in Workers : reply[w].kind = "claim" /\ reply[w].is_retry
    /\ \E i \in DOMAIN trajectory :
          trajectory[i].event_type = "task_claim" /\ FirstClaim(trajectory[i])

----------------------------------------------------------------------------
\* the events before position i of the log complete the task d
CompletedBefore(i, d) ==
    \E j \in 1..(i - 1) :
        /\ trajectory[j].event_type = "task_complete"
        /\ trajectory[j].task_id = d

(* C21: the order of the events in the trajectory is the order in which    *)
(* their state changes were committed; in particular a task_claim event of *)
(* a task is preceded in the log by a task_complete event of every task it *)
(* depends on, whatever the interleaving of the handlers.                  *)

C21_LogOrderMatchesCommitOrder ==
    \A i \in DOMAIN trajectory :
        trajectory[i].event_type = "task_claim"
            => \A d \in tasks[trajectory[i].task_id].dependencies :
                   CompletedBefore(i, d)

----------------------------------------------------------------------------
(* Subprocess execution: properties *)

\* the subprocesses of the request are invoked under the exec mutex:
\* exec with exclusive=true, git that is not read-only, safe_commit
Exclusive(req) ==
    \/ req.kind = "exec" /\ req.exclusive
    \/ req.kind = "git" /\ ~req.read_only
    \/ req.kind = "commit"

\* the connections whose exclusive subprocess is executing
ExclusiveRunning ==
    {c \in Conns : Busy(c) /\ ex.th[c].sub /\ Exclusive(ex.th[c].req)}

\* the thread is blocked on, or still has to take, the exec mutex
WillAcquire(c) ==
    Busy(c) /\ \E i \in DOMAIN ex.th[c].prog : ex.th[c].prog[i].op = "acquire"

C27_WitnessParallel ==
    \E c1, c2 \in Conns :
        /\ c1 \in ExclusiveRunning
        /\ Busy(c2) /\ ex.th[c2].sub /\ ~Exclusive(ex.th[c2].req)

\* the thread of connection c runs safe_commit
Committing(c) == Busy(c) /\ ex.th[c].req.kind = "commit"

\* safe_commit has started git add and has not yet finished with git commit
\* (or with the check that ends it after a failed add)
BetweenAddAndCommit(c) ==
    /\ Committing(c)
    /\ ex.th[c].ran # <<>>
    /\ \E i \in DOMAIN ex.th[c].prog :
           ex.th[c].prog[i].op \in {"spawn", "wait", "check_add"}

NoSpawnLeft(th) ==
    th.at = "busy" => \A i \in DOMAIN th.prog : th.prog[i].op # "spawn"

DenyListed == {"-c", "--config", "--upload-pack", "--exec", "--receive-pack"}

\* the argument is a deny-listed option or its =value form
Refused(arg) ==
    \E o \in DenyListed : arg = o \/ startswith(arg, o \o "=")

\* the thread of connection c handles a git request with a refused argument
RefusedGit(c) ==
    /\ Busy(c)
    /\ ex.th[c].req.kind = "git"
    /\ \E i \in DOMAIN ex.th[c].req.args : Refused(ex.th[c].req.args[i])

\* C29: a git request whose argument list contains a deny-listed option, or
\* the =value form of one, never takes or waits for the exec mutex and never
\* starts a subprocess, and it ends with an error response.
C29_DangerousGitRefused ==
    /\ [](\A c \in Conns :
            RefusedGit(c)
                => /\ ex.th[c].ran = <<>>
                   /\ ~ex.th[c].sub
                   /\ ex.mutex # c
                   /\ ~WillAcquire(c))
    /\ [][\A c \in Conns :
            RefusedGit(c) /\ ~Busy(c)'
                => ex'.out[c] = [status |-> "error", ran |-> <<>>]]_vars

\* a request carrying an =value form after a harmless argument has been
\* refused and is about to be answered, while the subprocess of an
\* exclusive git request is executing on the other connection
C29_Witness ==
    /\ RefusedGit("c1")
    /\ ex.th["c1"].req.args = <<"status", "--exec=a">>
    /\ ex.th["c1"].prog = <<St("raise", None)>>
    /\ "c2" \in ExclusiveRunning

----------------------------------------------------------------------------
(* Handlers beside one another: properties *)

\* the locks handler h holds
LocksHeld(h) ==
    (IF lock = h THEN {"state"} ELSE {})
        \cup (IF ex.mutex = h THEN {"exec"} ELSE {})
        \cup (IF ex.tlock = h THEN {"trajectory"} ELSE {})

\* the thread of connection c is at a step that takes a lock
AtAcquire(c) ==
    \/ Next_(c, "acquire")
    \/ Next_(c, "state_acquire")
    \/ Next_(c, "tail_acquire")

\* connection c runs an exclusive subprocess or waits for the exec mutex
Heavy(c) == c \in ExclusiveRunning \/ Next_(c, "acquire")

\* the steps of the task handler of worker w once it holds the state lock
IOStep(w) ==
    \/ IOOpenWrite(w)
    \/ IOFsync(w)
    \/ IORename(w)
    \/ IOCommit(w)
    \/ IOUnlock(w)
    \/ IOLog(w)
    \/ IORespond(w)

\* the steps of the thread of connection c
ConnStep(c) == ExStep(c) \/ ExStatusStep(c)

\* handler h can take its next step now
Runnable(h) ==
    IF h \in Conns THEN ENABLED ConnStep(h) ELSE ENABLED IOStep(h)

\* the thread of connection c can step, or it waits for a lock whose holder
\* can step and is not a connection that is Heavy
NotHeldUp(c) ==
    \/ ENABLED ConnStep(c)
    \/ /\ Next_(c, "state_acquire")
       /\ lock # None /\ Runnable(lock)
       /\ lock \in Conns => ~Heavy(lock)
    \/ /\ Next_(c, "tail_acquire")
       /\ ex.tlock # None /\ Runnable(ex.tlock) /\ ~Heavy(ex.tlock)

\* C30: no handler holds more than one of the state lock, the exec mutex
\* and the trajectory lock, and no handler that holds one waits for
\* another, so no lock-order deadlock exists; while a connection runs an
\* exclusive subprocess or waits for the exec mutex it holds neither the
\* state lock nor the trajectory lock, every task_claim or task_complete
\* handler in flight can take its next step, a state lock that get_state,
\* task_claim or task_complete wait for is held by a handler that can step,
\* and every ping or status thread can step or waits for such a handler.
C30_HandlersDoNotBlockOneAnother ==
    /\ \A h \in Conns \cup Workers : Cardinality(LocksHeld(h)) <= 1
    /\ \A c \in Conns : LocksHeld(c) # {} => ~AtAcquire(c)
    /\ \A c \in Conns :
           Heavy(c) =>
               /\ lock # c /\ ex.tlock # c
               /\ \A w \in Workers : pc[w].at = "busy" => Runnable(w)
               /\ lock # None => Runnable(lock)
               /\ \A d \in Conns :
                      Busy(d) /\ ex.th[d].req.kind \in {"ping", "status"}
                          => NotHeldUp(d)

\* an exclusive subprocess is executing on one connection, the other
\* connection waits for the exec mutex, and a task handler holds the state
\* lock in the middle of its atomic write
C30_Witness ==
    /\ \E c1, c2 \in Conns : c1 \in ExclusiveRunning /\ Next_(c2, "acquire")
    /\ \E w \in Workers : At(w, "fsync") /\ lock = w

\* a status thread waits for the state lock that a task handler holds while
\* the other connection runs an exclusive subprocess
C30_WitnessStatus ==
    \E c1, c2 \in Conns :
        /\ c1 \in ExclusiveRunning
        /\ Next_(c2, "state_acquire")
        /\ lock \in Workers

----------------------------------------------------------------------------
(* The daemon process: properties *)

\* process d holds the flock on the lock file it has open
HoldsLock(d) == Proc(d).fd # None /\ dm.flock[Proc(d).fd] = d

\* process d holds the single-instance lock and listens on its socket
Serving(d) == HoldsLock(d) /\ Proc(d).listening

\* C24: at most one daemon process holds the single-instance lock and
\* serves the socket at a time; while a daemon serves, no other process
\* gets past the lock (its start fails with "Another daemon is already
\* running") and the serving daemon's socket file is neither removed nor
\* replaced.
C24_SingleInstance ==
    /\ Cardinality({d \in Daemons : Serving(d)}) <= 1
    /\ \A d \in Daemons :
           Proc(d).at = "serve"
               => /\ dm.sock = d
                  /\ \A e \in Daemons \ {d} : ~HoldsLock(e)
    /\ \A d \in Daemons :
           Proc(d).at = "failed"
               => Proc(d).err = "Another daemon is already running"

\* C26: the caller of shutdown receives the ok response before the process
\* exits: the handler thread that started the stop of the server writes its
\* response while the process is alive, and is never cut off by the exit.
C26_ResponseBeforeExit ==
    \A d \in Daemons :
        /\ Proc(d).hs # "killed"
        /\ ~Alive(d) => Proc(d).hs \in {"none", "responded"}

\* a shutdown command or a signal has made the daemon's shutdown thread ask
\* serve_forever to stop
StopRequested(d) == Proc(d).stop

\* the process has ended the orderly way
CleanExit(d) ==
    /\ Proc(d).at = "exited"
    /\ Proc(d).code = <<0>>
    /\ ~Proc(d).listening
    /\ \A i \in Daemons : dm.flock[i] # d
    /\ dm.sock # d
    /\ dm.path # d

\* C25: a daemon whose stop was requested by a shutdown command, SIGTERM or
\* SIGINT ends only the orderly way: it has stopped listening, removed its
\* socket file and the lock file, released the lock and exited with code 0.
C25_StopEndsCleanly ==
    \A d \in Daemons : StopRequested(d) /\ ~Alive(d) => CleanExit(d)

----------------------------------------------------------------------------
(* Progress *)

AllCompleted == \A t \in DOMAIN tasks : tasks[t].status = COMPLETED

\* C22: for every acyclic plan, when time advances and one worker keeps
\* calling claim_task and completes every task it is given, every task is
\* eventually COMPLETED, whatever the other workers claimed before they
\* stopped; and once all tasks are COMPLETED a claim_task of any worker
\* returns no task and changes no task.
C22_Progress ==
    /\ <>AllCompleted
    /\ [][AllCompleted => AllCompleted']_vars
    /\ [][\A w \in Workers :
            AllCompleted /\ LiveClaim(w)
                => response' = "no_task" /\ tasks' = tasks]_vars

\* all tasks of a plan are COMPLETED although two workers claimed a task
\* and stopped, and a claim_task has since been answered with no task
C22_Witness ==
    /\ AllCompleted
    /\ DOMAIN tasks = LiveIds
    /\ \A w \in Workers \ {LiveWorker} : reply[w].kind = "claim"
    /\ response = "no_task"

----------------------------------------------------------------------------
(* complete_task by the recorded owner *)

\* the task is recorded as claimed by the worker, whatever its status
RecordedOwner(t, w) == t \in DOMAIN tasks /\ tasks[t].claimed_by = w

\* C40: complete_task checks ownership only, not status.  A complete_task(t,
\* w) by the recorded owner w succeeds whether t is RUNNING with a live
\* lease, RUNNING with an expired lease that nobody has reclaimed, or
\* already COMPLETED; it sets the status to COMPLETED and completed_at to the
\* time of the call and changes nothing else of t and no other task.
C40_CompleteChecksOwnershipOnly ==
    [][\A w \in Workers, t \in TaskIds :
          RecordedOwner(t, w) /\ TaskComplete(w, t)
              => /\ response' = "ok"
                 /\ tasks' = [tasks EXCEPT ![t].status = COMPLETED,
                                           ![t].completed_at = now]
                 /\ tasks[t].status = COMPLETED
                        => tasks' = [tasks EXCEPT ![t].completed_at = now]
                 /\ disk' = tasks'
                 /\ reply'[w] = CompleteOk(t)]_vars

\* a worker has completed a task after its lease had expired, and has then
\* completed the same task once more
C40_Witness ==
    \E i, j \in DOMAIN trajectory :
        /\ i < j
        /\ trajectory[i].event_type = "task_complete"
        /\ trajectory[j] = trajectory[i]
        /\ LET task == tasks[trajectory[i].task_id]
           IN /\ task.status = COMPLETED
              /\ task.claimed_by = trajectory[i].worker_id
              /\ task.completed_at - task.started_at > task.timeout_seconds

----------------------------------------------------------------------------
(* Order of preference of claim_task *)

\* a PENDING task whose dependencies are all COMPLETED
ClaimablePending(u) ==
    u \in DOMAIN tasks /\ tasks[u].status = PENDING /\ DepsCompleted(tasks, u)

DepCount(u) == Cardinality(tasks[u].dependencies)

\* C38: for a worker that holds no RUNNING task, claim_task returns a
\* timed-out RUNNING task only if no PENDING task is claimable; when PENDING
\* tasks are claimable it returns one of them with the smallest dependency
\* count, and among those with that count the first in the tasks mapping.
C38_PendingFirstFewestDeps ==
    [][\A w \in Workers, t \in TaskIds :
          HoldsNothing(w) /\ ClaimReturned(w, t)
              => /\ tasks[t].status = RUNNING => NoPendingClaimable /\ TimedOut(t)
                 /\ ~NoPendingClaimable
                       => /\ ClaimablePending(t)
                          /\ \A u \in DOMAIN tasks :
                                ClaimablePending(u)
                                    => \/ DepCount(t) < DepCount(u)
                                       \/ /\ DepCount(t) = DepCount(u)
                                          /\ Pos(t) <= Pos(u)]_vars

\* the last claim was given a task that comes later in the tasks mapping than
\* a PENDING task which was claimable as well but has more dependencies
C38_Witness ==
    /\ trajectory # <<>>
    /\ LET e == trajectory[Len(trajectory)]
       IN /\ e.event_type = "task_claim"
          /\ ~e.is_retry /\ ~e.is_reclaim
          /\ \E u \in DOMAIN tasks :
                /\ ClaimablePending(u)
                /\ Pos(u) < Pos(e.task_id)
                /\ DepCount(u) > DepCount(e.task_id)

\* a worker has been given a timed-out task of another worker while PENDING
\* tasks exist, all of them blocked
C38_WitnessReclaim ==
    /\ trajectory # <<>>
    /\ LET e == trajectory[Len(trajectory)]
       IN /\ e.event_type = "task_claim"
          /\ e.is_reclaim
          /\ \E u \in DOMAIN tasks : tasks[u].status = PENDING

----------------------------------------------------------------------------
(* Timeouts of exec and the release of GLOBAL_EXEC_LOCK *)

\* the thread of connection c still has a release ahead of it
WillRelease(c) ==
    Busy(c) /\ \E i \in DOMAIN ex.th[c].prog : ex.th[c].prog[i].op = "release"

\* the step ends an execution of connection c: the child returned, was
\* killed at the timeout, or could not be started
ExecutionEnds(c) ==
    \/ \E rc \in ReturnCodes : ExWait(c, rc)
    \/ ExTimeout(c)
    \/ ExSpawnFail(c)

\* C39: an exec request whose subprocess exceeds its timeout is answered ok
\* with returncode -15 and signal_name SIGTERM; and whenever an execution
\* under the exec mutex ends, normally, by timeout or by a failure to start,
\* the release is the thread's next step (for safe_commit, which holds the
\* mutex over two executions, it is still ahead), so that the mutex is only
\* ever held by a running thread that will release it and that waits for
\* nothing but its own subprocess.
C39_TimeoutAnsweredOkMutexReleased ==
    /\ [](\A c \in Conns :
            ex.mutex = c
                => /\ WillRelease(c)
                   /\ ex.th[c].prog[1].op
                          \in {"spawn", "wait", "check_add", "release"})
    /\ [][\A c \in Conns :
            /\ ExTimeout(c) /\ ex.th[c].req.kind = "exec"
                  => /\ ex'.th[c].rc = SIGTERM
                     /\ ex'.th[c].prog[Len(ex'.th[c].prog)].op = "respond"
            /\ ExRespond(c) /\ ex.th[c].req.kind = "exec" /\ ex.th[c].rc = SIGTERM
                  => ex'.out[c] = [status |-> "ok", rc |-> 0 - 15,
                                   signal_name |-> "SIGTERM",
                                   ran |-> <<"cmd">>]
            /\ ExecutionEnds(c) /\ ex.mutex = c
                  => /\ WillRelease(c)'
                     /\ ex.th[c].req.kind # "commit"
                            => ex'.th[c].prog[1].op = "release"]_vars

\* an exclusive exec was killed at its timeout and answered ok with -15 and
\* SIGTERM, the mutex is free again, and the other connection has run an
\* exclusive exec after it
C39_Witness ==
    \E c, d \in Conns :
        /\ c # d
        /\ ex.out[c].status = "ok" /\ ex.out[c].rc = SIGTERM
        /\ ex.out[c].signal_name = "SIGTERM"
        /\ ex.mutex = d
        /\ Busy(d) /\ ex.th[d].req = ExecReq(TRUE) /\ ex.th[d].sub
        /\ Len(trajectory) > 0
        /\ trajectory[Len(trajectory)] = [event_type |-> "exec", returncode |-> SIGTERM]

\* an exclusive execution could not be started, was answered with an error,
\* and the mutex is free
C39_WitnessFailedStart ==
    \E c \in Conns :
        /\ ex.out[c] = [status |-> "error", ran |-> <<>>]
        /\ ~Busy(c)
        /\ ex.mutex = None
        /\ \E d \in Conns : d # c /\ Busy(d) /\ ex.th[d].sub

----------------------------------------------------------------------------
(* plan_import replaces the state *)

\* the log position of the last plan_import, 0 when there is none
LastImport ==
    LET at == {i \in DOMAIN trajectory : trajectory[i].event_type = "plan_import"}
    IN IF at = {} THEN 0 ELSE CHOOSE i \in at : \A j \in at : j <= i

\* worker w was given a task under the previous plan and has claimed
\* nothing since the last plan_import
ClaimedBeforeImportOnly(w) ==
    /\ LastImport > 0
    /\ \E i \in 1..(LastImport - 1) :
          /\ trajectory[i].event_type = "task_claim"
          /\ trajectory[i].worker_id = w
    /\ \A i \in (LastImport + 1)..Len(trajectory) :
          ~(trajectory[i].event_type = "task_claim" /\ trajectory[i].worker_id = w)

----------------------------------------------------------------------------
(* Phantom tasks *)

\* the ids of the group table that have no task section
PhantomTasks(doc) ==
    (UNION {doc.groups[g] : g \in DOMAIN doc.groups}) \ doc.sections

\* C36: plan ingestion rejects phantom tasks: any plan whose group table
\* lists a task id that has no task section in the body, in whichever group
\* the id appears, is rejected with an error and leaves the stored state
\* unchanged.
C36_PhantomRejected ==
    [][\A doc \in Documents :
          PhantomTasks(doc) # {} /\ ImportDocument(doc)
              => /\ response' # "ok"
                 /\ UNCHANGED <<tasks, disk, trajectory>>]_vars

\* a plan whose table names a phantom task has been rejected: the phantom
\* stands in a group that is followed by a group with a real task
C36_WitnessRejected ==
    /\ response = "Missing dependency: t2 (in t1)"
    /\ trajectory = <<>>

----------------------------------------------------------------------------
(* trajectory.tail *)

\* s is a suffix of t
IsSuffix(s, t) ==
    Len(s) <= Len(t) /\ s = SubSeq(t, Len(t) - Len(s) + 1, Len(t))

\* C33: trajectory.tail(n) returns the last n well-formed events of the file
\* in file order (all of them when there are fewer than n), whatever corrupt
\* lines stand between the events; the result is always a suffix of the
\* file's sequence of well-formed events.
C33_TailReturnsLastN ==
    fn.at = "done" /\ fn.n > 0
        => /\ fn.result = last(trajectory, fn.n)
           /\ IsSuffix(fn.result, trajectory)

\* what does hold: a file that fits into one block is read whole, and tail
\* returns the last n of its well-formed events
TailOfSmallFile ==
    fn.at = "done" /\ fn.n > 0 /\ fn.exists /\ Len(fn.file) <= block_size
        => fn.result = last(trajectory, fn.n)

\* what does hold: a file in which every line is an event
TailOfCleanFile ==
    (/\ fn.at = "done" /\ fn.n > 0 /\ fn.exists
     /\ Len(split(fn.file, "\n")) = Len(trajectory) + 1)
        => fn.result = last(trajectory, fn.n)

\* what does hold: the events returned are events of the file, in file
\* order and without gaps, up to its end
TailIsSuffix ==
    fn.at = "done" /\ fn.n > 0 => IsSuffix(fn.result, trajectory)

----------------------------------------------------------------------------
(* Termination of get_claimable_task *)

\* a RUNNING task that has timed out and whose dependencies are COMPLETED
ReclaimableNow(t) ==
    t \in DOMAIN tasks /\ Reclaimable(tasks[t], now) /\ DepsCompleted(tasks, t)

\* C37: get_claimable_task always terminates, including when every pending
\* task is blocked, and the rotation cap never hides work: it returns no task
\* only if no PENDING task has all dependencies COMPLETED and no RUNNING task
\* with satisfied dependencies has timed out; the scan changes only the
\* order of pending_deque, never the set of ids it holds.
C37_ScanTerminatesHidesNothing ==
    /\ (fn.at # "idle") ~> (fn.at = "idle")
    /\ [](fn.at = "return" /\ fn.task = None
             => /\ ~fn.raised
                /\ \A t \in TaskIds : ~ClaimablePending(t) /\ ~ReclaimableNow(t))
    /\ [](fn.at # "idle" => fn.rotations <= Len(pending_deque) + 1)
    /\ [][fn.at \in {"while", "for"}
             => /\ SeqToSet(pending_deque') = SeqToSet(pending_deque)
                /\ Len(pending_deque') = Len(pending_deque)
                /\ pending_set' = pending_set
                /\ tasks' = tasks]_vars

\* the scan has gone round a deque of two blocked tasks, every entry has
\* been looked at and rotated, and it returns no task
C37_Witness ==
    /\ fn.at = "return"
    /\ fn.task = None
    /\ Len(pending_deque) = 2
    /\ fn.rotations = Len(pending_deque) + 1
    /\ \A i \in DOMAIN pending_deque : ~ClaimablePending(pending_deque[i])

\* the scan has rotated a blocked task to the back and found the claimable
\* task behind it
C37_WitnessFound ==
    /\ fn.at = "return"
    /\ fn.task # None
    /\ fn.rotations > 0
    /\ tasks[fn.task].status = PENDING

----------------------------------------------------------------------------
(* Connections: properties *)

\* the client of connection c wrote a request line that is not empty
SentRequest(c) ==
    /\ ex.th[c].at # "idle"
    /\ ex.th[c].sent \notin {"", "\n"}

\* the client of connection c will read nothing more: the handler thread
\* has returned, or the process has ended
Over(c) == ex.th[c].at = "closed" \/ ~Alive("d1")

\* the lines that are no request the daemon performs
BadLines ==
    {"not json\n", "{\"not_command\":\"value\"}\n",
     "{\"command\":\"unknown_cmd\"}\n", "{\"command\":\"task_claim\"}\n"}

\* the response lines hold one response, of status ok or error
OneResponse(c) ==
    /\ Len(ex.out[c]) = 1
    /\ ex.out[c][1].status \in {"ok", "error"}
    /\ ex.th[c].sent \in BadLines => ex.out[c][1].status = "error"

\* C31: every connection that sends a non-empty request line receives
\* exactly one response line, of status ok or error; malformed requests,
\* unknown and missing commands and exceptions raised in a handler are
\* answered with one error response, after which the connection is closed;
\* answering a request leaves the daemon serving unless the request is
\* shutdown.
C31_OneResponsePerRequest ==
    /\ [](\A c \in Conns :
             SentRequest(c)
                 => /\ Len(ex.out[c]) <= 1
                    /\ Over(c) => OneResponse(c))
    /\ [][\A c \in Conns :
             HandleStep(c) /\ ex.th[c].request # "shutdown" => dm' = dm]_vars

\* the claim of C31 for the connections of a process that is alive
OneResponseWhileAlive ==
    \A c \in Conns :
        SentRequest(c)
            => /\ Len(ex.out[c]) <= 1
               /\ ex.th[c].at = "closed" => OneResponse(c)

\* a request whose handler raised was answered with an error response and
\* a later connection is being served
ErrorAnsweredAndServing ==
    \E c, d \in Conns :
        /\ ex.th[c].at = "closed"
        /\ ex.th[c].sent = "{\"command\":\"get_state\"}\n"
        /\ ex.out[c] = <<Err("exception")>>
        /\ ex.th[d].at = "write"
        /\ Proc("d1").at = "serve"

\* C32: a connection whose request line is empty, a bare newline or the
\* end of input without data, receives no response bytes, and handling it
\* leaves the daemon as it is.
C32_EmptyLineClosesSilently ==
    /\ [](\A c \in Conns :
             ex.th[c].at # "idle" /\ ex.th[c].sent \in {"", "\n"}
                 => ex.out[c] = <<>>)
    /\ [][\A c \in Conns :
             HandleStep(c) /\ ex.th[c].sent \in {"", "\n"} => dm' = dm]_vars

\* the claim of C32 for the end of input without data
EndOfInputClosesSilently ==
    \A c \in Conns :
        ex.th[c].at # "idle" /\ ex.th[c].sent = "" => ex.out[c] = <<>>

\* a connection that sent nothing has been closed
EndOfInputClosed ==
    \E c \in Conns : ex.th[c].at = "closed" /\ ex.th[c].sent = ""

----------------------------------------------------------------------------
(* The gate hooks: properties *)

\* the hook has ended after send_rpc found the daemon out of reach: no
\* socket file, nobody listening, or the daemon could not be started
Unreachable ==
    /\ fn.at = "exit"
    /\ fn.exc \in Caught \cup {"RuntimeError"}

\* the hook printed allow and exited with code 0
Allowed == fn.out = <<"allow">> /\ fn.code = <<0>>

\* C34: check-state and check-commit fail open: whenever the daemon cannot
\* be reached (no socket, connection refused, or the daemon cannot be
\* started) they print allow and exit with code 0.
C34_HooksFailOpen == Unreachable => Allowed

\* the part of C34 the code keeps: a first call whose last attempt found no
\* socket or was refused ends with allow
FirstCallFailsOpen ==
    Unreachable /\ fn.call = 1 /\ fn.exc \in Caught => Allowed

\* a hook has failed open after a refused connection
FailedOpen ==
    Unreachable /\ fn.exc = "ConnectionRefusedError" /\ Allowed

====
